---- MODULE Spec2Model ----
(***************************************************************************)
(* The embedding model lifecycle manager (ModelManager) of the embeddings  *)
(* service: the bounded LRU cache of resident models, the loader with its  *)
(* fallback strategies, the state mirror in the document store, and the    *)
(* requests that run against them on one asyncio event loop.               *)
(*                                                                         *)
(* A request runs without interruption from one suspension point to the    *)
(* next.  The loaders (_load_text_model, _load_multimodal_model),          *)
(* unload_model and _ensure_memory_available contain no await that         *)
(* suspends (they are blocking calls inside coroutines), so the only       *)
(* suspension points of load_model are the document-store calls of         *)
(* _persist_system_model.  Each action below is one such uninterrupted     *)
(* segment.                                                                *)
(***************************************************************************)
EXTENDS Integers, Sequences, FiniteSets, TLC

(* ------------------------------------------------------------------ *)
(* Bounds                                                              *)
(* ------------------------------------------------------------------ *)

\* Capacity of the cache.  The source reads
\* getattr(settings, 'max_models_in_memory', 8); the model scales the
\* capacity down so that eviction happens with the identifiers below.
max_models == 2

\* The requests that can be in flight together.
Procs == {1, 2}

(* ------------------------------------------------------------------ *)
(* Model catalog                                                       *)
(* ------------------------------------------------------------------ *)

TEXT == "text"
IMAGE == "image"
MULTIMODAL == "multimodal"

ModelType == {TEXT, IMAGE, MULTIMODAL}

MiniLM == "sentence-transformers/all-MiniLM-L6-v2"
MarqoB == "Marqo/marqo-ecommerce-embeddings-B"
ViTB32 == "ViT-B-32"

\* self._available_models: the static catalog.
_available_models ==
    [n \in {MiniLM,
            "sentence-transformers/all-mpnet-base-v2",
            "sentence-transformers/paraphrase-multilingual-MiniLM-L12-v2",
            "openai/clip-vit-base-patch32",
            "sentence-transformers/clip-ViT-B-32",
            MarqoB,
            "Marqo/marqo-ecommerce-embeddings-L"} |->
        CASE n = MiniLM ->
               [type |-> TEXT, dimensions |-> 768, use_auto_model |-> FALSE,
                description |-> "Fast and efficient text embedding model"]
          [] n = "sentence-transformers/all-mpnet-base-v2" ->
               [type |-> TEXT, dimensions |-> 768, use_auto_model |-> FALSE,
                description |-> "High-quality text embedding model"]
          [] n = "sentence-transformers/paraphrase-multilingual-MiniLM-L12-v2" ->
               [type |-> TEXT, dimensions |-> 768, use_auto_model |-> FALSE,
                description |-> "Multilingual text embedding model"]
          [] n = "openai/clip-vit-base-patch32" ->
               [type |-> MULTIMODAL, dimensions |-> 512, use_auto_model |-> FALSE,
                description |-> "CLIP model for text and image embeddings"]
          [] n = "sentence-transformers/clip-ViT-B-32" ->
               [type |-> MULTIMODAL, dimensions |-> 512, use_auto_model |-> FALSE,
                description |-> "Sentence-transformers CLIP model"]
          [] n = MarqoB ->
               [type |-> MULTIMODAL, dimensions |-> 768, use_auto_model |-> TRUE,
                description |-> "Marqo ecommerce embedding model"]
          [] OTHER ->
               [type |-> MULTIMODAL, dimensions |-> 1024, use_auto_model |-> TRUE,
                description |-> "Marqo ecommerce embedding model (large)"]]

Catalog == DOMAIN _available_models

\* The identifiers requests are issued with: a TEXT catalog entry, a
\* MULTIMODAL catalog entry with use_auto_model, and settings.image_model_name,
\* whose default "ViT-B-32" is not a key of the catalog.
ModelNames == {MiniLM, MarqoB, ViTB32}

\* Mutant of get_model_type: an unknown identifier defaults to IMAGE.
get_model_type_image_default(model_name) ==
    IF model_name \in Catalog THEN _available_models[model_name].type ELSE IMAGE

\* get_model_type
get_model_type(model_name) ==
    IF model_name \in Catalog THEN _available_models[model_name].type ELSE TEXT

(* ------------------------------------------------------------------ *)
(* Model loader                                                        *)
(* ------------------------------------------------------------------ *)

\* What the external libraries do during one load: "ok" (the first strategy
\* works), "fallback" (SentenceTransformer raises, AutoTokenizer/AutoModel
\* work), "probe_fail" (open_clip loads, the dimension probe raises),
\* "fail" (every strategy of the path raises).
LoaderOutcome == {"ok", "fallback", "probe_fail", "fail"}

\* The output width the loaded encoder itself reports
\* (get_sentence_embedding_dimension, last_hidden_state.shape[-1],
\* text_features.shape[-1]): a property of the model artifact.
NativeDims(model_name) ==
    CASE model_name = MiniLM -> 384
      [] model_name = MarqoB -> 768
      [] OTHER -> 512

LoadFailed == [type |-> "none", dimensions |-> 0, variant |-> "failed"]

\* _load_text_model: SentenceTransformer, else AutoTokenizer + AutoModel.
_load_text_model(model_name, outcome) ==
    CASE outcome = "ok" ->
           [type |-> TEXT, dimensions |-> NativeDims(model_name),
            variant |-> "sentence_transformer"]
      [] outcome = "fallback" ->
           [type |-> TEXT, dimensions |-> NativeDims(model_name),
            variant |-> "is_auto_model"]
      [] OTHER -> LoadFailed

\* cfg = self._available_models.get(model_name, {})
cfg_get(model_name, key, default) ==
    IF model_name \in Catalog THEN _available_models[model_name][key] ELSE default

\* Mutant of _load_multimodal_model: use_auto_model entries are loaded with
\* AutoModel and AutoProcessor and tagged is_siglip_auto.
load_multimodal_siglip_auto(model_name, outcome) ==
    IF cfg_get(model_name, "use_auto_model", FALSE)
    THEN CASE outcome = "ok" ->
                [type |-> MULTIMODAL, dimensions |-> NativeDims(model_name),
                 variant |-> "is_siglip_auto"]
           [] outcome = "probe_fail" ->
                [type |-> MULTIMODAL,
                 dimensions |-> cfg_get(model_name, "dimensions", 768),
                 variant |-> "is_siglip_auto"]
           [] OTHER -> LoadFailed
    ELSE CASE outcome = "ok" ->
                [type |-> MULTIMODAL, dimensions |-> NativeDims(model_name),
                 variant |-> "is_sentence_transformers"]
           [] OTHER -> LoadFailed

\* _load_multimodal_model: open_clip for use_auto_model entries (no fallback,
\* the probe failure keeps the configured dimension), else SentenceTransformer.
_load_multimodal_model(model_name, outcome) ==
    IF cfg_get(model_name, "use_auto_model", FALSE)
    THEN CASE outcome = "ok" ->
                [type |-> MULTIMODAL, dimensions |-> NativeDims(model_name),
                 variant |-> "is_open_clip"]
           [] outcome = "probe_fail" ->
                [type |-> MULTIMODAL,
                 dimensions |-> cfg_get(model_name, "dimensions", 768),
                 variant |-> "is_open_clip"]
           [] OTHER -> LoadFailed
    ELSE CASE outcome = "ok" ->
                [type |-> MULTIMODAL, dimensions |-> NativeDims(model_name),
                 variant |-> "is_sentence_transformers"]
           [] OTHER -> LoadFailed

\* The outcomes each loader path distinguishes.
Outcomes(model_name, model_type) ==
    IF model_type = TEXT THEN {"ok", "fallback", "fail"}
    ELSE IF cfg_get(model_name, "use_auto_model", FALSE)
         THEN {"ok", "probe_fail", "fail"}
         ELSE {"ok", "fail"}

\* load_model lines 60-63: the loader is chosen by the requested type.
Loader(model_name, model_type, outcome) ==
    IF model_type = TEXT
    THEN _load_text_model(model_name, outcome)
    ELSE _load_multimodal_model(model_name, outcome)

\* What the libraries do during one load: whether SentenceTransformer(...)
\* with get_sentence_embedding_dimension, AutoTokenizer/AutoModel with the
\* dummy forward, open_clip.create_model_and_transforms with get_tokenizer,
\* and the dimension probe return (TRUE) or raise (FALSE).
Libraries ==
    [SentenceTransformer : BOOLEAN, AutoModel : BOOLEAN, open_clip : BOOLEAN,
     probe : BOOLEAN]

\* Mutant of text_strategies: the except branch re-raises.
text_strategies_no_fallback(lib) ==
    [calls |-> <<"SentenceTransformer">>,
     outcome |-> IF lib.SentenceTransformer THEN "ok" ELSE "fail"]

\* _load_text_model lines 96-111: the library calls made, in order, and
\* the outcome of the try/except.
text_strategies(lib) ==
    IF lib.SentenceTransformer
    THEN [calls |-> <<"SentenceTransformer">>, outcome |-> "ok"]
    ELSE [calls |-> <<"SentenceTransformer", "AutoModel">>,
          outcome |-> IF lib.AutoModel THEN "fallback" ELSE "fail"]

\* Mutant of multimodal_strategies: a failed open_clip load falls back to
\* SentenceTransformer.
multimodal_strategies_fallback(model_name, lib) ==
    IF cfg_get(model_name, "use_auto_model", FALSE) /\ lib.open_clip
    THEN [calls |-> <<"open_clip", "probe">>,
          outcome |-> IF lib.probe THEN "ok" ELSE "probe_fail"]
    ELSE [calls |-> IF cfg_get(model_name, "use_auto_model", FALSE)
                    THEN <<"open_clip", "SentenceTransformer">>
                    ELSE <<"SentenceTransformer">>,
          outcome |-> IF lib.SentenceTransformer THEN "ok" ELSE "fail"]

\* _load_multimodal_model lines 114-146: the library calls made, in order,
\* and the outcome of the nested try/except.
multimodal_strategies(model_name, lib) ==
    IF cfg_get(model_name, "use_auto_model", FALSE)
    THEN IF lib.open_clip
         THEN [calls |-> <<"open_clip", "probe">>,
               outcome |-> IF lib.probe THEN "ok" ELSE "probe_fail"]
         ELSE [calls |-> <<"open_clip">>, outcome |-> "fail"]
    ELSE [calls |-> <<"SentenceTransformer">>,
          outcome |-> IF lib.SentenceTransformer THEN "ok" ELSE "fail"]

(* ------------------------------------------------------------------ *)
(* The cache: self._models (an OrderedDict) and self._model_info       *)
(* ------------------------------------------------------------------ *)

\* An OrderedDict is the sequence of its (key, value) items in order.
Keys(od) == {od[i].name : i \in DOMAIN od}

Value(od, k) == (CHOOSE i \in DOMAIN od : od[i].name = k)

GetItem(od, k) == od[Value(od, k)].data

\* od[k] = v: a new key is appended, an existing key keeps its position.
SetItem(od, k, v) ==
    IF k \in Keys(od)
    THEN [i \in DOMAIN od |-> IF od[i].name = k THEN [name |-> k, data |-> v] ELSE od[i]]
    ELSE Append(od, [name |-> k, data |-> v])

\* del od[k]
DelItem(od, k) == SelectSeq(od, LAMBDA e : e.name # k)

\* od.move_to_end(k)
move_to_end(od, k) ==
    SelectSeq(od, LAMBDA e : e.name # k) \o SelectSeq(od, LAMBDA e : e.name = k)

NoInfo == [type |-> "none", dimensions |-> 0, is_loaded |-> FALSE, description |-> "None"]

\* The synchronous part of the manager works on the pair of dictionaries and
\* the record of touches: c.models is self._models, c.info is
\* self._model_info (NoInfo for a missing key).  c.touched is the history
\* the recency claims are stated against: the identifiers in the order of
\* their last touch (insertion, cache hit in load_model, use by
\* get_embedding), oldest first.
Touch(t, k) == SelectSeq(t, LAMBDA x : x # k) \o <<k>>

\* Mutant of _update_last_used: the recency order is never refreshed.
update_last_used_noop(c, model_name) == c

\* _update_last_used
_update_last_used(c, model_name) ==
    IF model_name \in Keys(c.models)
    THEN [c EXCEPT !.models = move_to_end(c.models, model_name)]
    ELSE c

\* Mutant of unload_model: the handle goes, the loaded flag stays.
unload_model_keeps_flag(c, model_name) ==
    IF model_name \notin Keys(c.models)
    THEN c
    ELSE [c EXCEPT !.models = DelItem(c.models, model_name)]

\* Mutant of unload_model: the metadata entry is deleted with the handle.
unload_model_forgets_info(c, model_name) ==
    IF model_name \notin Keys(c.models)
    THEN c
    ELSE [c EXCEPT !.models = DelItem(c.models, model_name),
                   !.info = [c.info EXCEPT ![model_name] = NoInfo]]

\* unload_model (gc.collect and empty_cache have no effect on this state)
unload_model(c, model_name) ==
    IF model_name \notin Keys(c.models)
    THEN c
    ELSE [c EXCEPT !.models = DelItem(c.models, model_name),
                   !.info = IF c.info[model_name] # NoInfo
                            THEN [c.info EXCEPT ![model_name].is_loaded = FALSE]
                            ELSE c.info]

\* Mutant of _ensure_memory_available: > in place of >=.
RECURSIVE ensure_memory_off_by_one(_)
ensure_memory_off_by_one(c) ==
    IF Len(c.models) > max_models
    THEN ensure_memory_off_by_one(unload_model(c, c.models[1].name))
    ELSE c

\* _ensure_memory_available: unload the first key while the cache is full.
RECURSIVE _ensure_memory_available(_)
_ensure_memory_available(c) ==
    IF Len(c.models) >= max_models
    THEN _ensure_memory_available(unload_model(c, c.models[1].name))
    ELSE c

\* ModelInfo(...) of load_model lines 69-75
ModelInfo(model_name, model_type, model_data) ==
    [type |-> model_type,
     dimensions |-> model_data.dimensions,
     is_loaded |-> TRUE,
     description |-> cfg_get(model_name, "description", "None")]

\* self._models[model_name] = model_data; move_to_end; self._model_info[...] = info
Insert(c, model_name, model_type, model_data) ==
    [c EXCEPT !.models = move_to_end(SetItem(c.models, model_name, model_data), model_name),
              !.info[model_name] = ModelInfo(model_name, model_type, model_data),
              !.touched = Touch(c.touched, model_name)]

\* Mutant of load_model_miss: the capacity check is skipped.
load_model_miss_unbounded(c, model_name, model_type, outcome) ==
    LET model_data == Loader(model_name, model_type, outcome)
    IN  IF model_data = LoadFailed
        THEN [c |-> c, status |-> "failed"]
        ELSE [c |-> Insert(c, model_name, model_type, model_data), status |-> "loaded"]

\* Mutant of load_model_miss: a failed load leaves a placeholder entry.
load_model_miss_placeholder(c, model_name, model_type, outcome) ==
    LET c1 == _ensure_memory_available(c)
        model_data == Loader(model_name, model_type, outcome)
    IN  IF model_data = LoadFailed
        THEN [c |-> Insert(c1, model_name, model_type, model_data), status |-> "failed"]
        ELSE [c |-> Insert(c1, model_name, model_type, model_data), status |-> "loaded"]

\* Mutant of load_model_miss: a failed load restores the evicted entry.
load_model_miss_rollback(c, model_name, model_type, outcome) ==
    LET c1 == _ensure_memory_available(c)
        model_data == Loader(model_name, model_type, outcome)
    IN  IF model_data = LoadFailed
        THEN [c |-> c, status |-> "failed"]
        ELSE [c |-> Insert(c1, model_name, model_type, model_data), status |-> "loaded"]

\* load_model, lines 57-76: capacity check, loader, insertion, metadata.
\* status "loaded": the loader returned a handle, which is inserted and
\* described; "failed": the loader raised (lines 64-66 re-raise).
load_model_miss(c, model_name, model_type, outcome) ==
    LET c1 == _ensure_memory_available(c)
        model_data == Loader(model_name, model_type, outcome)
    IN  IF model_data = LoadFailed
        THEN [c |-> c1, status |-> "failed"]
        ELSE [c |-> Insert(c1, model_name, model_type, model_data), status |-> "loaded"]

\* Mutant of load_model: the resident check is dropped, every call reloads.
load_model_always_reloads(c, model_name, model_type, force_reload, outcome) ==
    load_model_miss(c, model_name, model_type, outcome)

\* Mutant of load_model: a forced reload of a resident identifier replaces
\* its handle without the capacity check.
load_model_reload_in_place(c, model_name, model_type, force_reload, outcome) ==
    IF model_name \in Keys(c.models) /\ ~force_reload
    THEN [c |-> [_update_last_used(c, model_name)
                    EXCEPT !.touched = Touch(c.touched, model_name)],
          status |-> "hit"]
    ELSE IF model_name \in Keys(c.models)
    THEN load_model_miss_unbounded(c, model_name, model_type, outcome)
    ELSE load_model_miss(c, model_name, model_type, outcome)

\* Mutant of load_model: a cache hit records the requested modality.
load_model_hit_retypes(c, model_name, model_type, force_reload, outcome) ==
    IF model_name \in Keys(c.models) /\ ~force_reload
    THEN [c |-> [_update_last_used(c, model_name)
                    EXCEPT !.touched = Touch(c.touched, model_name),
                           !.info[model_name].type = model_type],
          status |-> "hit"]
    ELSE load_model_miss(c, model_name, model_type, outcome)

\* load_model, lines 54-76: everything before the first suspension point.
\* status "hit": resident and not forced (lines 54-56).
load_model(c, model_name, model_type, force_reload, outcome) ==
    IF model_name \in Keys(c.models) /\ ~force_reload
    THEN [c |-> [_update_last_used(c, model_name)
                    EXCEPT !.touched = Touch(c.touched, model_name)],
          status |-> "hit"]
    ELSE load_model_miss(c, model_name, model_type, outcome)

\* get_embedding, lines 154-169, for a resident model: the handle is looked
\* up, marked most recently used and the vectors are computed.
get_embedding_resident(c, model_name) ==
    [_update_last_used(c, model_name) EXCEPT !.touched = Touch(c.touched, model_name)]

\* list_models
list_models(info) == {[name |-> n, info |-> info[n]] : n \in {m \in DOMAIN info : info[m] # NoInfo}}

(* ------------------------------------------------------------------ *)
(* State                                                               *)
(* ------------------------------------------------------------------ *)

VARIABLES
    _models,        \* ModelManager._models: sequence of [name, data]
    _model_info,    \* ModelManager._model_info: name -> ModelInfo or NoInfo
    touched,        \* history: resident identifiers in the order of their last touch
    system_models,  \* the "system_models" collection: name -> document or NoDoc
    pc,             \* per request: where its coroutine is suspended
    req,            \* per request: the call and its arguments
    stack,          \* per request: the callers load_model returns into
    sm,             \* per request: the local sm of _persist_system_model
    loads,          \* per request: loader invocations made for it so far
    result,         \* per request: what the caller got
    locals,         \* per request: the local variables its coroutines hold
    out             \* per request: the vectors or the dict it was returned

vars == <<_models, _model_info, touched, system_models, pc, req, stack, sm, loads,
          result, locals, out>>

NoDoc == [type |-> "none", active |-> FALSE, loaded |-> FALSE]

NoReq == [op |-> "none", name |-> "none", type |-> "none", force |-> FALSE]

NoResult == [status |-> "none", err |-> "none", value |-> "none"]

\* The locals a suspended coroutine keeps: components, vectors and weights
\* of build_query_embedding (lines 320-322), model_data of get_embedding
\* (line 154) and the length of pil_images in _image_embeddings (line 217).
NoLocals == [components |-> <<>>, vectors |-> <<>>, weights |-> <<>>,
             model_data |-> LoadFailed, pil_images |-> 0]

NoOut == [vectors |-> <<>>]

\* Python's None, for an argument that is not given.
None == "None"

\* settings.text_model_name, settings.image_model_name and
\* settings.use_text_model_for_images, at their defaults.
settings == [text_model_name |-> MarqoB, image_model_name |-> ViTB32,
             use_text_model_for_images |-> FALSE]

\* The model_type the callers of load_model pass for an identifier: the
\* catalog type when it has one (load_text_model, load_image_model,
\* get_embedding, embed_text, embed_weighted_terms, startup), else the default
\* of the wrapper: TEXT in load_text_model, IMAGE in load_image_model.
CallerTypes(model_name) ==
    IF model_name \in Catalog
    THEN {_available_models[model_name].type}
    ELSE {TEXT, IMAGE}

\* A content argument: one string, or a list of strings.
Str(s) == [is_str |-> TRUE, val |-> s]

List(l) == [is_str |-> FALSE, val |-> l]

\* The calls a request can make on the manager.
Requests ==
    {r \in [op : {"load_model"}, name : ModelNames, type : ModelType, force : BOOLEAN] :
        r.type \in CallerTypes(r.name)}
    \cup [op : {"unload_model", "embed_text"},
          name : ModelNames, type : {"none"}, force : {FALSE}]
    \cup [op : {"get_embedding"}, name : ModelNames, type : {"none"}, force : {FALSE},
          content : {Str("hello")}, content_type : {TEXT}]

Cache == [models |-> _models, info |-> _model_info, touched |-> touched]

Init ==
    /\ _models = <<>>
    /\ _model_info = [n \in ModelNames |-> NoInfo]
    /\ touched = <<>>
    /\ system_models = [n \in ModelNames |-> NoDoc]
    /\ pc = [p \in Procs |-> "idle"]
    /\ req = [p \in Procs |-> NoReq]
    /\ stack = [p \in Procs |-> <<>>]
    /\ sm = [p \in Procs |-> NoDoc]
    /\ loads = [p \in Procs |-> 0]
    /\ result = [p \in Procs |-> NoResult]
    /\ locals = [p \in Procs |-> NoLocals]
    /\ out = [p \in Procs |-> NoOut]

(* ------------------------------------------------------------------ *)
(* Embedding computation                                               *)
(* ------------------------------------------------------------------ *)

\* The image references of a batch: a URL that answers 200 with an image,
\* a URL that answers 404 (or times out), an inline base64 image behind a
\* data-URI header, a bare base64 image, and a string that is neither a URL
\* nor decodable.
UrlOk == "https://img.example/a.png"
UrlGone == "https://img.example/gone.png"
DataUri == "data:image/png;base64,iVBORw0KGgo="
B64Ok == "iVBORw0KGgo="
B64Bad == "not-an-image"

ImageRefs == {UrlOk, UrlGone, DataUri, B64Ok, B64Bad}

\* item.startswith("http://") or item.startswith("https://"), line 219
startswith_http(item) == item \in {UrlOk, UrlGone}

\* Mutant of b64decode_opens: a payload that does not decode is skipped over.
b64decode_opens_any(item) == TRUE

\* lines 227-229: the header of a data URI is split off, the rest is
\* base64-decoded and opened as an image; FALSE when that raises.
b64decode_opens(item) ==
    LET payload == IF item = DataUri THEN B64Ok ELSE item
    IN  payload = B64Ok

\* lines 221-223: client.get, r.raise_for_status() and Image.open; FALSE
\* when one raises.
http_get_opens(item) == item = UrlOk

\* get_embedding lines 156-157: a single string is a batch of one.
AsList(content) == IF content.is_str THEN <<content.val>> ELSE content.val

\* The vector a model computes for an item on a path; its length is the
\* output width of the encoder.
Vector(model_name, path, item) ==
    [model |-> model_name, path |-> path, item |-> item, dim |-> NativeDims(model_name)]

\* Mutant of EmbeddingPath: the path follows the modality the model was
\* loaded with.
embedding_path_by_handle(content_type, model_data) ==
    IF model_data.type = IMAGE THEN "image" ELSE "text"

\* get_embedding lines 160-166: the path is chosen by content_type.
EmbeddingPath(content_type, model_data) ==
    IF content_type = TEXT THEN "text"
    ELSE IF content_type = IMAGE THEN "image"
    ELSE "text"

\* _text_embeddings: every variant (open_clip text tower, encode, tokenizer
\* with mean pooling) returns one row per text.
_text_embeddings(model_name, model_data, texts) ==
    [i \in DOMAIN texts |-> Vector(model_name, "text", texts[i])]

\* The branch _text_embeddings (lines 174, 193, 200, 202) and
\* _image_embeddings (lines 232, 245, 252, 254) take for a handle: the
\* is_siglip_auto tag first, then is_open_clip, then a model that has
\* encode, then the tokenizer + AutoModel code.
encoder_branch(model_data) ==
    IF model_data.variant = "is_siglip_auto" THEN "is_siglip_auto"
    ELSE IF model_data.variant = "is_open_clip" THEN "is_open_clip"
    ELSE IF model_data.variant \in {"sentence_transformer", "is_sentence_transformers"}
    THEN "encode"
    ELSE "AutoModel"

\* _image_embeddings lines 231-255: the encoder of the handle's variant, one
\* row per image; a handle with neither an image tower nor encode raises.
image_encoder(model_data) == model_data.variant # "is_auto_model"

\* _image_embeddings lines 218-230: the first item from `from` on at which
\* the loop suspends (a URL) or raises (an undecodable payload); past the
\* end when every remaining item is decoded inline.
FirstStop(images, from) ==
    LET S == {j \in from..Len(images) : startswith_http(images[j]) \/ ~b64decode_opens(images[j])}
    IN  IF S = {} THEN Len(images) + 1 ELSE CHOOSE j \in S : \A k \in S : j <= k

(* ------------------------------------------------------------------ *)
(* Requests                                                            *)
(* ------------------------------------------------------------------ *)

PersistPcs == {"persist_get", "persist_save", "persist_reread",
               "ensure_count", "ensure_set", "ensure_find"}

\* The touch history keeps the identifiers that are still resident.
Residents(t, od) == SelectSeq(t, LAMBDA x : x \in Keys(od))

\* The request ends: it returns `value` with the object o, or raises `err`,
\* having called the loader n more times, and leaves the cache as c.
FinishOut(p, c, status, err, value, o, n) ==
    /\ _models' = c.models
    /\ _model_info' = c.info
    /\ touched' = Residents(c.touched, c.models)
    /\ pc' = [pc EXCEPT ![p] = "done"]
    /\ result' = [result EXCEPT ![p] = [status |-> status, err |-> err, value |-> value]]
    /\ stack' = [stack EXCEPT ![p] = <<>>]
    /\ sm' = [sm EXCEPT ![p] = NoDoc]
    /\ loads' = [loads EXCEPT ![p] = @ + n]
    /\ locals' = [locals EXCEPT ![p] = NoLocals]
    /\ out' = [out EXCEPT ![p] = o]

Finish(p, c, status, err, value, n) == FinishOut(p, c, status, err, value, NoOut, n)

\* The request suspends at `at` with the cache as c, `frames` the calls it
\* is in and loc their locals, after n loader calls.
SuspendAt(p, c, at, frames, loc, n) ==
    /\ _models' = c.models
    /\ _model_info' = c.info
    /\ touched' = Residents(c.touched, c.models)
    /\ pc' = [pc EXCEPT ![p] = at]
    /\ stack' = [stack EXCEPT ![p] = frames]
    /\ loads' = [loads EXCEPT ![p] = @ + n]
    /\ locals' = [locals EXCEPT ![p] = loc]
    /\ UNCHANGED <<result, sm, out>>

\* load_model reaches line 77 (await self._persist_system_model) after one
\* loader call; `frames` are the callers waiting for it.
Suspend(p, c, frames) == SuspendAt(p, c, "persist_get", frames, locals[p], 1)

(* ------------------------------------------------------------------ *)
(* build_query_embedding: models, contributions and their combination  *)
(* ------------------------------------------------------------------ *)

\* d.get(key, default), for a dict and for keyword arguments
Get(d, key, default) == IF key \in DOMAIN d THEN d[key] ELSE default

\* Python's `a or b` on optional strings: None and "" are false.
Or(a, b) == IF a \in {None, ""} THEN b ELSE a

\* `if term_weights:`: a group that is None or empty is skipped.
Given(args, group) == group \in DOMAIN args /\ args[group] # <<>>

\* list(d.keys()) of a dict given as its items in insertion order
KeyList(d) == [i \in DOMAIN d |-> d[i].key]

WeightList(d) == [i \in DOMAIN d |-> d[i].weight]

\* lines 324-325
text_model_override(kwargs) ==
    Or(Get(kwargs, "text_model_name", None), Get(kwargs, "textModelName", None))

image_model_override(kwargs) ==
    Or(Get(kwargs, "image_model_name", None), Get(kwargs, "imageModelName", None))

\* line 328 with line 293, and line 335: the model of the terms and texts
text_model(kwargs) == Or(text_model_override(kwargs), settings.text_model_name)

\* Mutant of image_model: the text override wins over the image override.
image_model_text_first(kwargs) ==
    Or(Or(text_model_override(kwargs), image_model_override(kwargs)),
       settings.image_model_name)

\* line 346: the model of the images
image_model(kwargs) ==
    Or(Or(image_model_override(kwargs), text_model_override(kwargs)),
       settings.image_model_name)

\* The width of a vector: its length.
Dim(v) == IF "dim" \in DOMAIN v THEN v.dim ELSE Len(v.num)

RECURSIVE SumSeq(_)
SumSeq(s) == IF s = <<>> THEN 0 ELSE Head(s) + SumSeq(Tail(s))

\* np.average(..., weights=...): the weight vector, or None when
\* np.any(weight_arr != 1.0) is false (line 365)
average_weights(weights) ==
    IF \E i \in DOMAIN weights : weights[i] # 1 THEN "weighted" ELSE None

\* Lines 361-365: np.stack raises on rows of different lengths, np.average
\* raises when its weights sum to zero; "ok" otherwise.
combine_status(vectors, weights, strategy) ==
    IF \E i, j \in DOMAIN vectors : Dim(vectors[i]) # Dim(vectors[j])
    THEN "ValueError: all input arrays must have the same shape"
    ELSE IF strategy = "MEAN" /\ average_weights(weights) # None /\ SumSeq(weights) = 0
    THEN "ZeroDivisionError: Weights sum to zero"
    ELSE "ok"

\* A vector of numbers v is kept exactly: v[k] = num[k] / (den * sqrt(rad)),
\* with integers num[k], den # 0 and rad >= 1.
Sign(x) == IF x < 0 THEN -1 ELSE 1

SumSquares(num) == SumSeq([k \in DOMAIN num |-> num[k] * num[k]])

\* (vector_stack * weight_arr).sum(axis=0), line 367, on rows without a root
RECURSIVE weighted_sum(_, _)
weighted_sum(vectors, weights) ==
    LET v == Head(vectors)
        w == Head(weights)
    IN  IF Len(vectors) = 1
        THEN [num |-> [k \in DOMAIN v.num |-> w * v.num[k]], den |-> v.den, rad |-> 1]
        ELSE LET s == weighted_sum(Tail(vectors), Tail(weights))
             IN  [num |-> [k \in DOMAIN v.num |-> w * v.num[k] * s.den + s.num[k] * v.den],
                  den |-> v.den * s.den, rad |-> 1]

\* Mutant of np_average: the weights are ignored.
np_average_uniform(vectors, weights) ==
    [weighted_sum(vectors, [i \in DOMAIN vectors |-> 1]) EXCEPT !.den = @ * Len(vectors)]

\* np.average(vector_stack, axis=0, weights=...), line 365: the mean of
\* the rows when no weights are passed, else sum(w*v) / sum(w).
np_average(vectors, weights) ==
    IF average_weights(weights) = None
    THEN [weighted_sum(vectors, [i \in DOMAIN vectors |-> 1]) EXCEPT !.den = @ * Len(vectors)]
    ELSE [weighted_sum(vectors, weights) EXCEPT !.den = @ * SumSeq(weights)]

\* Mutant of l2_normalize: the combined vector is returned as computed.
l2_normalize_skip(v) == v

\* Mutant of l2_normalize: the vector is divided by the square of its norm.
l2_normalize_squared(v) ==
    IF SumSquares(v.num) > 0
    THEN [num |-> [k \in DOMAIN v.num |-> v.den * v.num[k]], den |-> SumSquares(v.num),
          rad |-> 1]
    ELSE v

\* Lines 370-372: norm = np.linalg.norm(combined); if norm > 0: combined /= norm
l2_normalize(v) ==
    IF SumSquares(v.num) > 0
    THEN [num |-> [k \in DOMAIN v.num |-> Sign(v.den) * v.num[k]], den |-> 1,
          rad |-> SumSquares(v.num)]
    ELSE v

\* Lines 358-375 on numbers: the dict build_query_embedding returns for the
\* contribution vectors and weights, or what the combination raises.
combine(vectors, weights, strategy, normalize) ==
    LET status == combine_status(vectors, weights, strategy)
        combined == IF strategy = "MEAN"
                    THEN np_average(vectors, weights)
                    ELSE weighted_sum(vectors, weights)
        combined_list == IF normalize THEN l2_normalize(combined) ELSE combined
    IN  IF status # "ok"
        THEN [status |-> status]
        ELSE [status |-> "ok", vector |-> combined_list,
              dimension |-> Len(combined_list.num), strategy |-> strategy]

\* Mutant of terms_component: the aggregate carries the number of groups.
terms_component_one(term_weights, v) ==
    [type |-> "TERM_AGG", count |-> 1, weight |-> 1, sample |-> v]

\* line 331
terms_component(term_weights, v) ==
    [type |-> "TERM_AGG", count |-> Len(term_weights), weight |-> 1, sample |-> v]

\* lines 341 and 353: one record per item of the group, in order
item_components(type, d, embs) ==
    [i \in DOMAIN d |-> [type |-> type, key |-> d[i].key, weight |-> d[i].weight,
                         sample |-> embs[i]]]

\* line 347
images_call(r) ==
    [name |-> image_model(r.kwargs), content |-> List(KeyList(r.args["weighted_images"])),
     content_type |-> IMAGE]

\* line 335
texts_call(r) ==
    [name |-> text_model(r.kwargs), content |-> List(KeyList(r.args["weighted_texts"])),
     content_type |-> TEXT]

\* embed_weighted_terms line 296, on the cache c the load_model of line 294
\* has returned with: content_type is info.type
terms_call(r, c) ==
    [name |-> text_model(r.kwargs), content |-> List(KeyList(r.args["term_weights"])),
     content_type |-> c.info[text_model(r.kwargs)].type]

(* ------------------------------------------------------------------ *)
(* get_embedding and its callers                                       *)
(* ------------------------------------------------------------------ *)

\* How an uninterrupted segment of a request ends on cache c.  The
\* request returns `value` with the object o, or raises err, after n loader
\* calls:
Done(c, status, err, value, o, n) ==
    [kind |-> "done", c |-> c, status |-> status, err |-> err, value |-> value,
     out |-> o, n |-> n]

Raised(c, err, n) == Done(c, "error", err, "none", NoOut, n)

\* or it suspends at `at` in the calls `frames`, whose locals are loc:
Awaits(c, at, frames, loc, n) ==
    [kind |-> "await", c |-> c, at |-> at, frames |-> frames, loc |-> loc, n |-> n]

\* or get_embedding returns its vectors to its caller (lines 161-166).
Returned(c, vectors) == [kind |-> "return", c |-> c, vectors |-> vectors]

\* _image_embeddings from item `from` of the loop of lines 218-230 on: it
\* runs to the next URL (await client.get, line 221), to the first payload
\* that does not decode, or through the encoder.
_image_embeddings(c, model_name, model_data, images, from, frames, loc) ==
    LET j == FirstStop(images, from)
    IN  IF j > Len(images)
        THEN IF encoder_branch(model_data) = "is_siglip_auto"
             THEN \* lines 232-243, for an output without image_embeds
                  Raised(c, "ValueError: SigLIP AutoModel output missing image_embeds", 0)
             ELSE IF image_encoder(model_data)
             THEN Returned(c, [i \in DOMAIN images |-> Vector(model_name, "image", images[i])])
             ELSE Raised(c, "ValueError: Image embedding not supported", 0)
        ELSE IF startswith_http(images[j])
        THEN Awaits(c, "http_get", <<"_image_embeddings">> \o frames,
                    [loc EXCEPT !.model_data = model_data, !.pil_images = j - 1], 0)
        ELSE Raised(c, "DecodeError", 0)

\* get_embedding from line 154 on cache c: the handle is looked up and
\* marked most recently used, the batch goes down the path of content_type.
get_embedding_154(c, call, frames, loc) ==
    IF call.name \notin Keys(c.models)
    THEN Raised(c, "KeyError: _models", 0)
    ELSE LET model_data == GetItem(c.models, call.name)
             c1 == get_embedding_resident(c, call.name)
         IN  IF EmbeddingPath(call.content_type, model_data) = "text"
             THEN Returned(c1, _text_embeddings(call.name, model_data, AsList(call.content)))
             ELSE _image_embeddings(c1, call.name, model_data, AsList(call.content), 1,
                                    frames, loc)

\* get_embedding(call.name, call.content, call.content_type) from line 149
\* on cache c, called with `frames` above it: the ways it can end, one for
\* each outcome of the loader.
get_embedding(c, call, frames, loc) ==
    IF call.name \notin Keys(c.models)
    THEN IF call.name \notin Catalog
         THEN {Raised(c, "ValueError: Unknown model", 0)}
         ELSE {LET r == load_model(c, call.name, _available_models[call.name].type,
                                   FALSE, outcome)
               IN  IF r.status = "loaded"
                   THEN Awaits(r.c, "persist_get", <<"get_embedding">> \o frames, loc, 1)
                   ELSE Raised(r.c, "LoadError", 1) :
               outcome \in Outcomes(call.name, _available_models[call.name].type)}
    ELSE {get_embedding_154(c, call, frames, loc)}

\* get_embedding returns its vectors to the caller of the manager.
ReturnVectors(c, vectors) == Done(c, "ok", "none", "vectors", [vectors |-> vectors], 0)

\* Lines 358-375 on the contributions gathered in loc.  The combined vector
\* is kept as the expression over the contribution vectors that `combine`
\* evaluates on numbers.
build_combine(p, c, loc) ==
    LET strategy == Get(req[p].kwargs, "strategy", "WEIGHTED_SUM")
        status == combine_status(loc.vectors, loc.weights, strategy)
    IN  IF status # "ok"
        THEN Raised(c, status, 0)
        ELSE Done(c, "ok", "none", "dict",
                  [vector |-> [vectors |-> loc.vectors, weights |-> loc.weights,
                               strategy |-> strategy,
                               normalize |-> Get(req[p].kwargs, "normalize", TRUE),
                               dim |-> Dim(loc.vectors[1])],
                   dimension |-> Dim(loc.vectors[1]),
                   components |-> loc.components,
                   strategy |-> strategy], 0)

\* Mutant of build_return: a call without contributions returns an empty result.
build_return_empty_ok(p, c, loc) ==
    IF loc.vectors = <<>>
    THEN Done(c, "ok", "none", "dict",
              [vector |-> <<>>, dimension |-> 0, components |-> <<>>,
               strategy |-> Get(req[p].kwargs, "strategy", "WEIGHTED_SUM")], 0)
    ELSE build_combine(p, c, loc)

\* Lines 355-375: no contribution raises, else the contributions are combined.
build_return(p, c, loc) ==
    IF loc.vectors = <<>>
    THEN Raised(c, "ValueError: No inputs provided", 0)
    ELSE build_combine(p, c, loc)

\* lines 348-353: the image vectors are appended
after_images(p, c, embs, loc) ==
    LET d == req[p].args["weighted_images"]
    IN  {build_return(p, c, [loc EXCEPT !.vectors = @ \o embs,
                                        !.weights = @ \o WeightList(d),
                                        !.components = @ \o item_components("IMAGE", d, embs)])}

\* lines 343-353
build_images(p, c, loc) ==
    IF Given(req[p].args, "weighted_images")
    THEN UNION {IF o.kind = "return" THEN after_images(p, o.c, o.vectors, loc) ELSE {o} :
                o \in get_embedding(c, images_call(req[p]), <<"weighted_images">>, loc)}
    ELSE {build_return(p, c, loc)}

\* lines 336-341: the text vectors are appended
after_texts(p, c, embs, loc) ==
    LET d == req[p].args["weighted_texts"]
    IN  build_images(p, c, [loc EXCEPT !.vectors = @ \o embs,
                                       !.weights = @ \o WeightList(d),
                                       !.components = @ \o item_components("TEXT", d, embs)])

\* lines 333-341
build_texts(p, c, loc) ==
    IF Given(req[p].args, "weighted_texts")
    THEN UNION {IF o.kind = "return" THEN after_texts(p, o.c, o.vectors, loc) ELSE {o} :
                o \in get_embedding(c, texts_call(req[p]), <<"weighted_texts">>, loc)}
    ELSE build_images(p, c, loc)

\* embed_weighted_terms lines 297-303 and build_query_embedding lines
\* 329-331: the weighted sum of the term vectors, normalised, is one
\* contribution of weight 1.0.
after_terms(p, c, embs, loc) ==
    LET d == req[p].args["term_weights"]
        v == [model |-> embs[1].model, path |-> embs[1].path, item |-> "TERM_AGG",
              dim |-> embs[1].dim, terms |-> embs, weights |-> WeightList(d)]
    IN  build_texts(p, c, [loc EXCEPT !.vectors = Append(@, v),
                                      !.weights = Append(@, 1),
                                      !.components = Append(@, terms_component(d, v))])

\* embed_weighted_terms from its load_model (line 294) on, which has ended
\* as r
terms_loaded(p, r) ==
    CASE r.status = "hit" ->
           UNION {IF o.kind = "return" THEN after_terms(p, o.c, o.vectors, NoLocals) ELSE {o} :
                  o \in get_embedding(r.c, terms_call(req[p], r.c),
                                      <<"embed_weighted_terms", "term_weights">>, NoLocals)}
      [] r.status = "loaded" ->
           {Awaits(r.c, "persist_get", <<"embed_weighted_terms", "term_weights">>, NoLocals, 1)}
      [] OTHER -> {Raised(r.c, "LoadError", 1)}

\* lines 327-331 with embed_weighted_terms lines 293-296: the ways
\* build_query_embedding can run from its start on cache c
build_terms(p, c) ==
    IF Given(req[p].args, "term_weights")
    THEN LET model_name == text_model(req[p].kwargs)
         IN  IF model_name \notin Catalog
             THEN {Raised(c, "KeyError: _available_models", 0)}
             ELSE UNION {terms_loaded(p, load_model(c, model_name,
                                                    _available_models[model_name].type,
                                                    FALSE, outcome)) :
                         outcome \in Outcomes(model_name, _available_models[model_name].type)}
    ELSE build_texts(p, c, NoLocals)

\* embed_text line 289: return emb[0]
embed_text_return(c, embs) == Done(c, "ok", "none", "vectors", [vectors |-> <<embs[1]>>], 0)

\* The vectors of get_embedding go back to the caller at the top of
\* `frames`, whose locals are loc: the caller of the manager,
\* embed_weighted_terms (line 296), build_query_embedding (lines 335 and
\* 347) or embed_text (line 288).
Return(p, c, embs, frames, loc) ==
    CASE req[p].op = "get_embedding" -> {ReturnVectors(c, embs)}
      [] req[p].op = "build_query_embedding" /\ frames[Len(frames)] = "term_weights" ->
           after_terms(p, c, embs, loc)
      [] req[p].op = "build_query_embedding" /\ frames[Len(frames)] = "weighted_texts" ->
           after_texts(p, c, embs, loc)
      [] req[p].op = "build_query_embedding" /\ frames[Len(frames)] = "weighted_images" ->
           after_images(p, c, embs, loc)
      [] OTHER -> {embed_text_return(c, embs)}

\* The ways the request goes on when its get_embedding call ends as one of
\* `ends`.
Returning(p, ends, frames, loc) ==
    UNION {IF o.kind = "return" THEN Return(p, o.c, o.vectors, frames, loc) ELSE {o} :
           o \in ends}

\* The segment of request p ends as o.
Take(p, o) ==
    IF o.kind = "await"
    THEN SuspendAt(p, o.c, o.at, o.frames, o.loc, o.n)
    ELSE FinishOut(p, o.c, o.status, o.err, o.value, o.out, o.n)

\* The group build_query_embedding is working on: the frame at the bottom
\* of its stack.
Group(p) == stack[p][Len(stack[p])]

\* sync_state_to_db is running for request p: its frame is followed by the
\* identifiers still to be written, the current one first.
InSync(p) == stack[p] # <<>> /\ Head(stack[p]) = "sync_state_to_db"

\* The identifier of the load_model call the request is in, or of the item
\* sync_state_to_db is at.
LoadName(p) ==
    IF InSync(p)
    THEN stack[p][2]
    ELSE IF req[p].op = "build_query_embedding"
    THEN IF Group(p) = "weighted_images"
         THEN image_model(req[p].kwargs)
         ELSE text_model(req[p].kwargs)
    ELSE req[p].name

\* The model_type argument of the load_model call the request is in:
\* its own argument, or the catalog type passed by get_embedding (line 153),
\* embed_text (line 287) and embed_weighted_terms (line 294).
LoadType(p) ==
    IF InSync(p)
    THEN _model_info[LoadName(p)].type  \* info.type, line 283
    ELSE IF req[p].op = "load_model"
    THEN req[p].type
    ELSE _available_models[LoadName(p)].type

\* The arguments of the get_embedding call the request is in or about to make.
CurrentCall(p) ==
    CASE req[p].op = "get_embedding" ->
           [name |-> req[p].name, content |-> req[p].content,
            content_type |-> req[p].content_type]
      [] req[p].op = "build_query_embedding" /\ Group(p) = "term_weights" ->
           terms_call(req[p], Cache)
      [] req[p].op = "build_query_embedding" /\ Group(p) = "weighted_texts" ->
           texts_call(req[p])
      [] req[p].op = "build_query_embedding" /\ Group(p) = "weighted_images" ->
           images_call(req[p])
      [] OTHER -> \* embed_text line 288
           [name |-> req[p].name, content |-> Str("hello"),
            content_type |-> _model_info[req[p].name].type]

\* A caller issues a request; it starts running at its next action.
Issue(p, R) ==
    /\ pc[p] \in {"idle", "done"}
    /\ \E r \in R : req' = [req EXCEPT ![p] = r]
    /\ pc' = [pc EXCEPT ![p] = "pending"]
    /\ result' = [result EXCEPT ![p] = NoResult]
    /\ out' = [out EXCEPT ![p] = NoOut]
    /\ loads' = [loads EXCEPT ![p] = 0]
    /\ UNCHANGED <<_models, _model_info, touched, system_models, stack, sm, locals>>

\* get_model_type(model_name)
CallGetModelType(p) ==
    /\ pc[p] = "pending"
    /\ req[p].op = "get_model_type"
    /\ Finish(p, Cache, "ok", "none", get_model_type(req[p].name), 0)
    /\ UNCHANGED <<system_models, req>>

\* load_model(model_name, model_type, force_reload) up to its return, its
\* exception or line 77.
CallLoadModel(p) ==
    /\ pc[p] = "pending"
    /\ req[p].op = "load_model"
    /\ \E outcome \in Outcomes(req[p].name, req[p].type) :
         LET r == load_model(Cache, req[p].name, req[p].type, req[p].force, outcome)
         IN  CASE r.status = "hit" -> Finish(p, r.c, "ok", "none", "info", 0)
               [] r.status = "loaded" -> Suspend(p, r.c, <<>>)
               [] OTHER -> Finish(p, r.c, "error", "LoadError", "none", 1)
    /\ UNCHANGED <<system_models, req>>

\* unload_model(model_name)
CallUnloadModel(p) ==
    /\ pc[p] = "pending"
    /\ req[p].op = "unload_model"
    /\ Finish(p, unload_model(Cache, req[p].name), "ok", "none",
              IF req[p].name \in Keys(_models) THEN "True" ELSE "False", 0)
    /\ UNCHANGED <<system_models, req>>

\* get_embedding(model_name, content, content_type)
CallGetEmbedding(p) ==
    /\ pc[p] = "pending"
    /\ req[p].op = "get_embedding"
    /\ \E o \in Returning(p, get_embedding(Cache, CurrentCall(p), <<>>, NoLocals),
                          <<>>, NoLocals) :
         Take(p, o)
    /\ UNCHANGED <<system_models, req>>

\* embed_text(text, model_name): load_model with the catalog type
\* (self._available_models[model_name] raises KeyError for an unknown name),
\* then get_embedding with the type of the returned info.
CallEmbedText(p) ==
    /\ pc[p] = "pending"
    /\ req[p].op = "embed_text"
    /\ IF req[p].name \notin Catalog
       THEN Finish(p, Cache, "error", "KeyError: _available_models", "none", 0)
       ELSE \E outcome \in Outcomes(req[p].name, LoadType(p)) :
              LET r == load_model(Cache, req[p].name, LoadType(p), FALSE, outcome)
              IN  CASE r.status = "hit" ->
                         \E o \in Returning(p, get_embedding(r.c,
                                              [name |-> req[p].name, content |-> Str("hello"),
                                               content_type |-> r.c.info[req[p].name].type],
                                              <<"embed_text">>, NoLocals),
                                          <<"embed_text">>, NoLocals) :
                            Take(p, o)
                    [] r.status = "loaded" -> Suspend(p, r.c, <<"embed_text">>)
                    [] OTHER -> Finish(p, r.c, "error", "LoadError", "none", 1)
    /\ UNCHANGED <<system_models, req>>

\* build_query_embedding(term_weights, weighted_texts, weighted_images, **kwargs)
CallBuildQueryEmbedding(p) ==
    /\ pc[p] = "pending"
    /\ req[p].op = "build_query_embedding"
    /\ \E o \in build_terms(p, Cache) : Take(p, o)
    /\ UNCHANGED <<system_models, req>>

\* self._model_info.items() (line 282): the identifiers that have metadata.
\* A dict iterates in the order of first insertion, which the state does
\* not record: every order is taken.
items(info) ==
    LET known == {n \in DOMAIN info : info[n] # NoInfo}
    IN  {order \in [1..Cardinality(known) -> known] :
            \A i, j \in DOMAIN order : i # j => order[i] # order[j]}

\* load_model returns its ModelInfo (line 79) into the caller on the stack.
\* In startup (main.py lines 20-21) sync_state_to_db follows, and startup
\* returns after it.  In sync_state_to_db _persist_system_model returns
\* into the loop of line 282, which goes on with the next item or ends.
ReturnFromLoadModel(p) ==
    IF stack[p] = <<>>
    THEN Finish(p, Cache, "ok", "none", "info", 0)
    ELSE IF Head(stack[p]) = "startup"
    THEN \E order \in items(_model_info) :
            SuspendAt(p, Cache, "persist_get", <<"sync_state_to_db">> \o order, locals[p], 0)
    ELSE IF Head(stack[p]) = "sync_state_to_db"
    THEN IF Len(stack[p]) > 2
         THEN SuspendAt(p, Cache, "persist_get",
                        <<"sync_state_to_db">> \o Tail(Tail(stack[p])), locals[p], 0)
         ELSE Finish(p, Cache, "ok", "none", "None", 0)
    ELSE IF Head(stack[p]) = "get_embedding"
    THEN \* line 154: model_data = self._models[model_name]
         \E o \in Returning(p, {get_embedding_154(Cache, CurrentCall(p), Tail(stack[p]),
                                                 locals[p])},
                          Tail(stack[p]), locals[p]) :
            Take(p, o)
    ELSE \* lines 288 and 296: await self.get_embedding(...)
         \E o \in Returning(p, get_embedding(Cache, CurrentCall(p), stack[p], locals[p]),
                          stack[p], locals[p]) :
            Take(p, o)

\* _image_embeddings lines 221-223: client.get answers for the URL the loop
\* is at; the loop goes on with the next item, or the status check raises.
HttpGet(p) ==
    /\ pc[p] = "http_get"
    /\ LET call == CurrentCall(p)
           images == AsList(call.content)
           j == locals[p].pil_images + 1
       IN  IF http_get_opens(images[j])
           THEN \E o \in Returning(p, {_image_embeddings(Cache, call.name,
                                                          locals[p].model_data, images, j + 1,
                                                          Tail(stack[p]), locals[p])},
                                   Tail(stack[p]), locals[p]) :
                   Take(p, o)
           ELSE Finish(p, Cache, "error", "HTTPStatusError", "none", 0)
    /\ UNCHANGED <<system_models, req>>

\* _persist_system_model line 48: get_by_name, or a new SystemModel; line 49:
\* loaded is True from load_model (line 77) and info.is_loaded from
\* sync_state_to_db (line 283).
PersistGet(p) ==
    /\ pc[p] = "persist_get"
    /\ sm' = [sm EXCEPT ![p] =
                [(IF system_models[LoadName(p)] # NoDoc
                  THEN system_models[LoadName(p)]
                  ELSE [type |-> LoadType(p), active |-> FALSE, loaded |-> FALSE])
                 EXCEPT !.loaded = IF InSync(p)
                                   THEN _model_info[LoadName(p)].is_loaded
                                   ELSE TRUE]]
    /\ pc' = [pc EXCEPT ![p] = "persist_save"]
    /\ UNCHANGED <<_models, _model_info, touched, system_models, req, stack, loads, result, locals, out>>

\* SystemModelRepository.save: update_one({"name"}, {"$set": payload}, upsert)
PersistSave(p) ==
    /\ pc[p] = "persist_save"
    /\ system_models' = [system_models EXCEPT ![LoadName(p)] = sm[p]]
    /\ pc' = [pc EXCEPT ![p] = "persist_reread"]
    /\ UNCHANGED <<_models, _model_info, touched, req, stack, sm, loads, result, locals, out>>

\* SystemModelRepository.save: find_one({"name"}), the document as stored now
PersistReread(p) ==
    /\ pc[p] = "persist_reread"
    /\ sm' = [sm EXCEPT ![p] = system_models[LoadName(p)]]
    /\ pc' = [pc EXCEPT ![p] = "ensure_count"]
    /\ UNCHANGED <<_models, _model_info, touched, system_models, req, stack, loads, result, locals, out>>

\* ensure_active_if_none: count_documents({"type", "active": True})
existing_active(docs, type) ==
    Cardinality({n \in DOMAIN docs : docs[n] # NoDoc /\ docs[n].type = type /\ docs[n].active})

EnsureCount(p) ==
    /\ pc[p] = "ensure_count"
    /\ IF existing_active(system_models, sm[p].type) = 0
       THEN /\ pc' = [pc EXCEPT ![p] = "ensure_set"]
            /\ UNCHANGED <<_models, _model_info, touched, stack, sm, loads, result, locals, out>>
       ELSE ReturnFromLoadModel(p)
    /\ UNCHANGED <<system_models, req>>

\* ensure_active_if_none: update_one({"name"}, {"$set": {"active": True}}, upsert)
EnsureSet(p) ==
    /\ pc[p] = "ensure_set"
    /\ system_models' = [system_models EXCEPT ![LoadName(p)] =
                            IF @ = NoDoc
                            THEN [type |-> "none", active |-> TRUE, loaded |-> FALSE]
                            ELSE [@ EXCEPT !.active = TRUE]]
    /\ pc' = [pc EXCEPT ![p] = "ensure_find"]
    /\ UNCHANGED <<_models, _model_info, touched, req, stack, sm, loads, result, locals, out>>

\* ensure_active_if_none: find_one({"name"}); then load_model returns
EnsureFind(p) ==
    /\ pc[p] = "ensure_find"
    /\ ReturnFromLoadModel(p)
    /\ UNCHANGED <<system_models, req>>

\* Mutant of PersistRaise: startup has no handler either.
persist_raise_unhandled(p) ==
    /\ pc[p] \in PersistPcs
    /\ Finish(p, Cache, "error", "MirrorError", "none", 0)
    /\ UNCHANGED <<system_models, req>>

\* A document-store call of _persist_system_model raises: nothing in
\* load_model, sync_state_to_db or their callers catches it, except startup
\* (main.py lines 22-25), which logs it and returns.
PersistRaise(p) ==
    /\ pc[p] \in PersistPcs
    /\ IF req[p].op = "startup"
       THEN Finish(p, Cache, "ok", "MirrorError", "None", 0)
       ELSE Finish(p, Cache, "error", "MirrorError", "none", 0)
    /\ UNCHANGED <<system_models, req>>

\* startup (main.py lines 18-25): get_model_type and load_model for
\* settings.text_model_name, then sync_state_to_db; an exception of any of
\* them is logged and startup returns.
CallStartup(p) ==
    /\ pc[p] = "pending"
    /\ req[p].op = "startup"
    /\ \E outcome \in Outcomes(req[p].name, get_model_type(req[p].name)) :
         LET r == load_model(Cache, req[p].name, get_model_type(req[p].name), FALSE, outcome)
         IN  CASE r.status = "hit" ->
                    \E order \in items(r.c.info) :
                       SuspendAt(p, r.c, "persist_get", <<"sync_state_to_db">> \o order,
                                 locals[p], 0)
               [] r.status = "loaded" -> Suspend(p, r.c, <<"startup">>)
               [] OTHER -> Finish(p, r.c, "ok", "LoadError", "None", 1)
    /\ UNCHANGED <<system_models, req>>

\* Mutant of CallSyncStateToDb: the loop stops after its first item.
sync_first_item_only(p) ==
    /\ pc[p] = "pending"
    /\ req[p].op = "sync_state_to_db"
    /\ IF items(_model_info) = {<<>>}
       THEN Finish(p, Cache, "ok", "none", "None", 0)
       ELSE \E order \in items(_model_info) :
               SuspendAt(p, Cache, "persist_get", <<"sync_state_to_db", order[1]>>,
                         locals[p], 0)
    /\ UNCHANGED <<system_models, req>>

\* sync_state_to_db (lines 281-283): _persist_system_model for every item
\* of self._model_info, one after the other.
CallSyncStateToDb(p) ==
    /\ pc[p] = "pending"
    /\ req[p].op = "sync_state_to_db"
    /\ IF items(_model_info) = {<<>>}
       THEN Finish(p, Cache, "ok", "none", "None", 0)
       ELSE \E order \in items(_model_info) :
               SuspendAt(p, Cache, "persist_get", <<"sync_state_to_db">> \o order,
                         locals[p], 0)
    /\ UNCHANGED <<system_models, req>>

\* loadModelAdvanced (schema.py lines 224-231): the key it activates after
\* the load is the name for type "text" and f"{name}:{pretrained}" otherwise.
pretrained == "laion2b_s34b_b79k"

advanced_key(name, type) == IF type = "text" THEN name ELSE name \o ":" \o pretrained

\* The names set_active is called with: by setActiveModel with any name, by
\* loadModelAdvanced with the key of the model it has loaded.
ActiveNames == ModelNames \cup {advanced_key(ViTB32, "image")}

\* update_one({"name": name}, {"$set": {"active": active}}) without upsert:
\* the document of that name when there is one, else nothing.
update_one(docs, name, active) ==
    IF name \in DOMAIN docs /\ docs[name] # NoDoc
    THEN [docs EXCEPT ![name].active = active]
    ELSE docs

\* Mutant of update_many: the filter matches no document.
update_many_none(docs, active) == docs

\* update_many({}, {"$set": {"active": False}})
update_many(docs, active) ==
    [n \in DOMAIN docs |-> IF docs[n] # NoDoc THEN [docs[n] EXCEPT !.active = active]
                                               ELSE docs[n]]

\* set_active line 121: every active flag is cleared
SetActiveClear(p) ==
    /\ pc[p] = "pending"
    /\ req[p].op = "set_active"
    /\ system_models' = update_many(system_models, FALSE)
    /\ pc' = [pc EXCEPT ![p] = "set_active_one"]
    /\ UNCHANGED <<_models, _model_info, touched, req, stack, sm, loads, result, locals, out>>

\* set_active line 122: the flag of the named document is set
SetActiveOne(p) ==
    /\ pc[p] = "set_active_one"
    /\ system_models' = update_one(system_models, req[p].name, TRUE)
    /\ pc' = [pc EXCEPT ![p] = "set_active_find"]
    /\ UNCHANGED <<_models, _model_info, touched, req, stack, sm, loads, result, locals, out>>

\* set_active lines 123-124: find_one and SystemModel(**doc), which raises
\* TypeError when find_one returned None
SetActiveFind(p) ==
    /\ pc[p] = "set_active_find"
    /\ IF req[p].name \in DOMAIN system_models /\ system_models[req[p].name] # NoDoc
       THEN Finish(p, Cache, "ok", "none", "SystemModel", 0)
       ELSE Finish(p, Cache, "error", "TypeError", "none", 0)
    /\ UNCHANGED <<system_models, req>>

Step(p) ==
    \/ CallLoadModel(p)
    \/ CallUnloadModel(p)
    \/ CallGetEmbedding(p)
    \/ CallEmbedText(p)
    \/ PersistGet(p)
    \/ PersistSave(p)
    \/ PersistReread(p)
    \/ EnsureCount(p)
    \/ EnsureSet(p)
    \/ EnsureFind(p)
    \/ PersistRaise(p)

\* Requests that each run to completion before the next one is issued.
Next ==
    \E p \in {1} : Issue(p, Requests) \/ Step(p)

Spec == Init /\ [][Next]_vars

\* Requests in flight together, interleaved at their suspension points.
\* The requests issued there: request 1 makes any non-forced call, the
\* other requests are competing non-forced loads.
ConcRequests(p) ==
    {r \in Requests : /\ ~r.force
                       /\ (r.op = "load_model" /\ r.name \notin Catalog => r.type = IMAGE)
                       /\ (p # 1 => r.op = "load_model")}

NextConc ==
    \E p \in Procs : Issue(p, ConcRequests(p)) \/ Step(p)

SpecConc == Init /\ [][NextConc]_vars

\* The embedding calls, each run to completion with a document store that
\* answers: get_model_type, get_embedding with text and image batches,
\* build_query_embedding, and the load of the default image model.
Contents ==
    {Str("hello"), List(<<"red", "shoe">>), Str(DataUri), List(<<UrlOk, B64Ok>>),
     List(<<B64Ok, UrlGone>>), List(<<UrlOk, B64Bad>>)}

TermChoices ==
    {<<>>, "term_weights" :> <<>>,
     "term_weights" :> <<[key |-> "red", weight |-> 2], [key |-> "shoe", weight |-> 3]>>}

TextChoices ==
    {<<>>, "weighted_texts" :> <<>>,
     "weighted_texts" :> <<[key |-> "boot", weight |-> 1], [key |-> "sandal", weight |-> -1]>>}

ImageChoices ==
    {<<>>, "weighted_images" :> <<>>,
     "weighted_images" :> <<[key |-> DataUri, weight |-> 2]>>,
     "weighted_images" :> <<[key |-> UrlOk, weight |-> 1], [key |-> B64Ok, weight |-> 3]>>,
     "weighted_images" :> <<[key |-> B64Ok, weight |-> 1], [key |-> UrlGone, weight |-> 2]>>,
     "weighted_images" :> <<[key |-> UrlOk, weight |-> 1], [key |-> B64Bad, weight |-> 2]>>}

KwargChoices ==
    {<<>>,
     "text_model_name" :> MiniLM,
     "image_model_name" :> MarqoB,
     ("text_model_name" :> MarqoB) @@ ("image_model_name" :> MiniLM),
     ("textModelName" :> MiniLM) @@ ("strategy" :> "MEAN"),
     ("image_model_name" :> "") @@ ("imageModelName" :> MarqoB) @@ ("normalize" :> FALSE)}

\* Every combination of groups with the default keyword arguments, and
\* every combination of keyword arguments on the calls whose groups are
\* absent or filled.
BuildRequests ==
    {[op |-> "build_query_embedding", args |-> t @@ x @@ i, kwargs |-> <<>>] :
        t \in TermChoices, x \in TextChoices, i \in ImageChoices}
    \cup {[op |-> "build_query_embedding", args |-> t @@ x @@ i, kwargs |-> k] :
            t \in {a \in TermChoices : Given(a, "term_weights") \/ a = <<>>},
            x \in {a \in TextChoices : Given(a, "weighted_texts") \/ a = <<>>},
            i \in {a \in ImageChoices : Given(a, "weighted_images") \/ a = <<>>},
            k \in KwargChoices}

EmbedRequests ==
    [op : {"get_model_type"}, name : Catalog \cup ModelNames]
    \cup [op : {"load_model"}, name : {ViTB32}, type : {IMAGE}, force : {FALSE}]
    \cup [op : {"get_embedding"}, name : ModelNames, content : Contents,
          content_type : ModelType]
    \cup BuildRequests

StepEmbed(p) ==
    \/ CallGetModelType(p)
    \/ CallLoadModel(p)
    \/ CallGetEmbedding(p)
    \/ CallBuildQueryEmbedding(p)
    \/ HttpGet(p)
    \/ PersistGet(p)
    \/ PersistSave(p)
    \/ PersistReread(p)
    \/ EnsureCount(p)
    \/ EnsureSet(p)
    \/ EnsureFind(p)

NextEmbed ==
    \E p \in {1} : Issue(p, EmbedRequests) \/ StepEmbed(p)

SpecEmbed == Init /\ [][NextEmbed]_vars

\* The calls that write the mirror, each run to completion with a document
\* store that answers: load_model, with the eviction and unload_model that
\* make a later load run the loader again, and set_active.
MirrorRequests ==
    {r \in Requests : r.op \in {"load_model", "unload_model"} /\ ~r.force}
    \cup [op : {"set_active"}, name : ActiveNames]

StepMirror(p) ==
    \/ CallLoadModel(p)
    \/ CallUnloadModel(p)
    \/ PersistGet(p)
    \/ PersistSave(p)
    \/ PersistReread(p)
    \/ EnsureCount(p)
    \/ EnsureSet(p)
    \/ EnsureFind(p)
    \/ SetActiveClear(p)
    \/ SetActiveOne(p)
    \/ SetActiveFind(p)

NextMirror ==
    \E p \in {1} : Issue(p, MirrorRequests) \/ StepMirror(p)

SpecMirror == Init /\ [][NextMirror]_vars

\* The same calls in flight together, interleaved at every document-store
\* call: request 1 makes any of them, the other requests are loads and
\* activations of the default image model.
MirrorConcRequests(p) ==
    {r \in MirrorRequests : p # 1 => r.op # "unload_model" /\ r.name = ViTB32}

NextMirrorConc ==
    \E p \in Procs : Issue(p, MirrorConcRequests(p)) \/ StepMirror(p)

SpecMirrorConc == Init /\ [][NextMirrorConc]_vars

\* The cache and its mirror: loads, unloads, activations and
\* sync_state_to_db, each run to completion, with a document store that may
\* raise.
SyncRequests ==
    MirrorRequests
    \cup [op : {"sync_state_to_db"}, name : {"none"}, type : {"none"}, force : {FALSE}]

NextSync ==
    \E p \in {1} : \/ Issue(p, SyncRequests)
                    \/ StepMirror(p)
                    \/ CallSyncStateToDb(p)
                    \/ PersistRaise(p)

SpecSync == Init /\ [][NextSync]_vars

\* The service from its start: startup runs on the new manager before any
\* request is served, then the requests run one at a time.
InitStart ==
    /\ _models = <<>>
    /\ _model_info = [n \in ModelNames |-> NoInfo]
    /\ touched = <<>>
    /\ system_models = [n \in ModelNames |-> NoDoc]
    /\ pc = [p \in Procs |-> IF p = 1 THEN "pending" ELSE "idle"]
    /\ req = [p \in Procs |-> IF p = 1
                               THEN [op |-> "startup", name |-> settings.text_model_name,
                                     type |-> "none", force |-> FALSE]
                               ELSE NoReq]
    /\ stack = [p \in Procs |-> <<>>]
    /\ sm = [p \in Procs |-> NoDoc]
    /\ loads = [p \in Procs |-> 0]
    /\ result = [p \in Procs |-> NoResult]
    /\ locals = [p \in Procs |-> NoLocals]
    /\ out = [p \in Procs |-> NoOut]

NextStart ==
    \E p \in {1} : CallStartup(p) \/ Issue(p, Requests) \/ Step(p)

SpecStart == InitStart /\ [][NextStart]_vars

\* The loaders on their own: one load of a catalog identifier, or of the
\* default image model, under each behaviour of the libraries.
LoaderInputs ==
    [op : {"loader"}, name : Catalog \cup {ViTB32}, type : ModelType, lib : Libraries]

InitLoader ==
    /\ _models = <<>>
    /\ _model_info = [n \in ModelNames |-> NoInfo]
    /\ touched = <<>>
    /\ system_models = [n \in ModelNames |-> NoDoc]
    /\ pc = [p \in Procs |-> IF p = 1 THEN "pending" ELSE "idle"]
    /\ req \in {[p \in Procs |-> IF p = 1 THEN r ELSE NoReq] : r \in LoaderInputs}
    /\ stack = [p \in Procs |-> <<>>]
    /\ sm = [p \in Procs |-> NoDoc]
    /\ loads = [p \in Procs |-> 0]
    /\ result = [p \in Procs |-> NoResult]
    /\ locals = [p \in Procs |-> NoLocals]
    /\ out = [p \in Procs |-> NoOut]

\* load_model lines 59-66: the loader of the requested type runs; it
\* returns model_data or its exception is raised again.
CallLoader(p) ==
    /\ pc[p] = "pending"
    /\ req[p].op = "loader"
    /\ LET s == IF req[p].type = TEXT
                THEN text_strategies(req[p].lib)
                ELSE multimodal_strategies(req[p].name, req[p].lib)
           model_data == Loader(req[p].name, req[p].type, s.outcome)
       IN  IF model_data # LoadFailed
           THEN FinishOut(p, Cache, "ok", "none", "model_data",
                          [calls |-> s.calls, model_data |-> model_data], 1)
           ELSE FinishOut(p, Cache, "error", "LoadError", "none",
                          [calls |-> s.calls, model_data |-> model_data], 1)
    /\ UNCHANGED <<system_models, req>>

NextLoader == \E p \in {1} : CallLoader(p)

SpecLoader == InitLoader /\ [][NextLoader]_vars

\* The combination of build_query_embedding on numbers: the contribution
\* vectors are unit vectors (or zero, as an aggregate of cancelling terms
\* is) of width 1 or 2, the weights are positive, zero or negative.
ContributionVectors ==
    {[num |-> <<3, 4>>, den |-> 5, rad |-> 1],
     [num |-> <<4, 3>>, den |-> 5, rad |-> 1],
     [num |-> <<-3, -4>>, den |-> 5, rad |-> 1],
     [num |-> <<0, 0>>, den |-> 5, rad |-> 1],
     [num |-> <<5>>, den |-> 5, rad |-> 1]}

ContributionWeights == {-1, 0, 1, 2}

MaxContributions == 2

CombineInputs ==
    {r \in [op : {"combine"},
            vectors : UNION {[1..n -> ContributionVectors] : n \in 1..MaxContributions},
            weights : UNION {[1..n -> ContributionWeights] : n \in 1..MaxContributions},
            strategy : {"WEIGHTED_SUM", "MEAN", "max"},
            normalize : BOOLEAN] :
        Len(r.vectors) = Len(r.weights)}

InitCombine ==
    /\ _models = <<>>
    /\ _model_info = [n \in ModelNames |-> NoInfo]
    /\ touched = <<>>
    /\ system_models = [n \in ModelNames |-> NoDoc]
    /\ pc = [p \in Procs |-> IF p = 1 THEN "pending" ELSE "idle"]
    /\ req \in {[p \in Procs |-> IF p = 1 THEN r ELSE NoReq] : r \in CombineInputs}
    /\ stack = [p \in Procs |-> <<>>]
    /\ sm = [p \in Procs |-> NoDoc]
    /\ loads = [p \in Procs |-> 0]
    /\ result = [p \in Procs |-> NoResult]
    /\ locals = [p \in Procs |-> NoLocals]
    /\ out = [p \in Procs |-> NoOut]

\* build_query_embedding lines 358-375 on the contributions of the request
Combine(p) ==
    /\ pc[p] = "pending"
    /\ req[p].op = "combine"
    /\ LET r == combine(req[p].vectors, req[p].weights, req[p].strategy, req[p].normalize)
       IN  IF r.status = "ok"
           THEN FinishOut(p, Cache, "ok", "none", "dict", r, 0)
           ELSE Finish(p, Cache, "error", r.status, "none", 0)
    /\ UNCHANGED <<system_models, req>>

NextCombine == \E p \in {1} : Combine(p)

SpecCombine == InitCombine /\ [][NextCombine]_vars

(* ------------------------------------------------------------------ *)
(* Properties                                                          *)
(* ------------------------------------------------------------------ *)

\* The keys of an OrderedDict in iteration order.
KeySeq(od) == [i \in DOMAIN od |-> od[i].name]

\* The first segment of request p runs in this step.
Starts(p) == pc[p] = "pending" /\ pc'[p] # "pending"

\* Request p returns or raises in this step.
Returns(p) == pc[p] # "done" /\ pc'[p] = "done"

InFlight(p) == pc[p] \notin {"idle", "done"}

Evicted(n) == _model_info[n] # NoInfo /\ ~_model_info[n].is_loaded

\* C1: after any sequence of load_model (forced or not, succeeding or
\* failing) and unload_model calls that each run to completion, the number
\* of resident handles is at most max_models.
CacheBounded == Len(_models) <= max_models

\* C1 witness: a load_model call has returned with the cache full and an
\* earlier model evicted or unloaded.
CacheBoundedWitness ==
    /\ pc[1] = "done"
    /\ req[1].op = "load_model"
    /\ result[1].status = "ok"
    /\ loads[1] = 1
    /\ Len(_models) = max_models
    /\ \E n \in ModelNames : Evicted(n)

\* C2: the iteration order of the cache is the order of last touch
\* (insertion, cache hit in load_model, use by get_embedding) of the resident
\* identifiers, a total order; a step that is not an unload_model call
\* removes a handle only when the cache is full, and then the one whose last
\* touch is oldest; a successful load of a non-resident identifier into a
\* full cache leaves the other residents except that oldest one, plus the
\* loaded identifier.
RecencyIsTouchOrder == KeySeq(_models) = touched

UnloadStep == \E p \in Procs : Starts(p) /\ req[p].op = "unload_model"

EvictsLeastRecentlyTouched ==
    [][/\ RecencyIsTouchOrder'
       /\ Cardinality(Keys(_models')) = Len(_models')
       /\ ~UnloadStep =>
            \A n \in Keys(_models) \ Keys(_models') :
                /\ Len(_models) >= max_models
                /\ n = touched[1]
       /\ \A p \in Procs :
            (/\ Starts(p)
             /\ req[p].op = "load_model"
             /\ req[p].name \notin Keys(_models)
             /\ Len(_models) = max_models
             /\ pc'[p] = "persist_get")
            => Keys(_models') = (Keys(_models) \ {touched[1]}) \cup {req[p].name}
      ]_vars

\* C2 witness: m1 = MiniLM and m2 = MarqoB were resident, m1 was touched
\* after m2, and the load of m3 = ViT-B-32 evicted m2 and left {m1, m3}.
EvictsLeastRecentlyTouchedWitness ==
    /\ pc[1] = "persist_get"
    /\ req[1].op = "load_model"
    /\ req[1].name = ViTB32
    /\ KeySeq(_models) = <<MiniLM, ViTB32>>
    /\ Evicted(MarqoB)

\* C3: load_model on a resident identifier with force_reload = false calls
\* the loader zero times, returns the metadata at once, makes the identifier
\* the most recently used, keeps the other residents in their order and every
\* handle as it was, and changes neither the metadata nor the state mirror.
CacheHitFrame ==
    [][\A p \in Procs :
         (/\ Starts(p)
          /\ req[p].op = "load_model"
          /\ req[p].name \in Keys(_models)
          /\ ~req[p].force)
         => /\ loads'[p] = 0
            /\ pc'[p] = "done"
            /\ result'[p] = [status |-> "ok", err |-> "none", value |-> "info"]
            /\ Len(_models') = Len(_models)
            /\ _models'[Len(_models')] =
                 [name |-> req[p].name, data |-> GetItem(_models, req[p].name)]
            /\ SelectSeq(_models', LAMBDA e : e.name # req[p].name)
                 = SelectSeq(_models, LAMBDA e : e.name # req[p].name)
            /\ _model_info' = _model_info
            /\ system_models' = system_models
      ]_vars

\* C3 witness: a non-forced load_model returned the metadata of an
\* identifier that was resident and not the most recently used one, without
\* a loader call.
CacheHitFrameWitness ==
    /\ pc[1] = "done"
    /\ req[1].op = "load_model"
    /\ ~req[1].force
    /\ result[1].value = "info"
    /\ loads[1] = 0
    /\ Len(_models) = 2
    /\ _models[2].name = req[1].name

\* C4: in every state, between operations and at every suspension point,
\* the metadata of an identifier has is_loaded = true exactly when a handle
\* for it is resident.
LoadedIffResident ==
    \A n \in ModelNames : _model_info[n].is_loaded <=> n \in Keys(_models)

\* C4 witness: a load is suspended at a mirror write while one identifier is
\* resident and another has been evicted or unloaded.
LoadedIffResidentWitness ==
    /\ pc[1] \in PersistPcs
    /\ \E n \in ModelNames : Evicted(n)
    /\ \E n \in ModelNames : _model_info[n].is_loaded /\ n \in Keys(_models)

\* C5: with load_model requests in flight together and interleaved at their
\* suspension points, the cache never holds more than max_models handles,
\* and no identifier twice.
CacheBoundedInFlight ==
    /\ Cardinality(Keys(_models)) <= max_models
    /\ Cardinality(Keys(_models)) = Len(_models)

\* C5 witness: two load_model requests for distinct identifiers are both
\* suspended in their mirror writes, the cache is full and a third
\* identifier has been evicted.
CacheBoundedInFlightWitness ==
    /\ pc[1] \in PersistPcs
    /\ pc[2] \in PersistPcs
    /\ req[1].op = "load_model"
    /\ req[2].op = "load_model"
    /\ req[1].name # req[2].name
    /\ Keys(_models) = {req[1].name, req[2].name}
    /\ \E n \in ModelNames : Evicted(n)

\* C6: of the load_model requests for one identifier that are in flight
\* together, at most one runs the loader: the others wait for its result.
SingleFlight ==
    \A p, q \in Procs :
        (/\ p # q
         /\ InFlight(p)
         /\ InFlight(q)
         /\ req[p].op = "load_model"
         /\ req[q].op = "load_model"
         /\ ~req[p].force
         /\ ~req[q].force
         /\ req[p].name = req[q].name)
        => loads[p] + loads[q] <= 1

\* C7: unload_model(id) returns true exactly when id was resident; then it
\* removes that handle only, sets the loaded flag of id to false and keeps
\* the metadata entry, which list_models still returns.  Otherwise it
\* returns false and changes neither the cache, the recency order nor the
\* metadata.
UnloadFrame ==
    [][\A p \in Procs :
         (Starts(p) /\ req[p].op = "unload_model")
         => /\ pc'[p] = "done"
            /\ result'[p].status = "ok"
            /\ result'[p].value = (IF req[p].name \in Keys(_models) THEN "True" ELSE "False")
            /\ IF req[p].name \in Keys(_models)
               THEN /\ _models' = SelectSeq(_models, LAMBDA e : e.name # req[p].name)
                    /\ _model_info' = [_model_info EXCEPT ![req[p].name].is_loaded = FALSE]
                    /\ req[p].name \in {e.name : e \in list_models(_model_info')}
               ELSE /\ _models' = _models
                    /\ _model_info' = _model_info
                    /\ touched' = touched
      ]_vars

\* C7 witness: unload_model returned true for a resident identifier while
\* another one stays resident.
UnloadFrameWitness ==
    /\ pc[1] = "done"
    /\ req[1].op = "unload_model"
    /\ result[1].value = "True"
    /\ Evicted(req[1].name)
    /\ Len(_models) = 1

\* C8: when the loader fails, load_model raises before any mirror write;
\* the step inserts or replaces no handle, creates no metadata with
\* is_loaded = true, writes nothing to the mirror and returns no value.
LoaderFailureFrame ==
    [][\A p \in Procs :
         (Returns(p) /\ result'[p].err = "LoadError")
         => /\ pc[p] = "pending"
            /\ loads'[p] = 1
            /\ result'[p].status = "error"
            /\ result'[p].value = "none"
            /\ \A i \in DOMAIN _models' : \E j \in DOMAIN _models : _models'[i] = _models[j]
            /\ \A n \in ModelNames :
                 _model_info'[n].is_loaded => _model_info'[n] = _model_info[n]
            /\ req[p].name \notin Keys(_models) =>
                 /\ req[p].name \notin Keys(_models')
                 /\ _model_info'[req[p].name] = _model_info[req[p].name]
            /\ system_models' = system_models
      ]_vars

\* C8 witness: a load_model call for an identifier never loaded before
\* raised the loader's error.
LoaderFailureFrameWitness ==
    /\ pc[1] = "done"
    /\ req[1].op = "load_model"
    /\ result[1].err = "LoadError"
    /\ _model_info[req[1].name] = NoInfo
    /\ system_models[req[1].name] = NoDoc

\* C9: load_model with an identifier that is not in the catalog raises the
\* unknown-model error, and no handle or metadata exists for such an
\* identifier.
UnknownModelNotLoaded ==
    /\ \A n \in ModelNames \ Catalog : n \notin Keys(_models) /\ _model_info[n] = NoInfo
    /\ \A p \in Procs :
         (pc[p] = "done" /\ req[p].op = "load_model" /\ req[p].name \notin Catalog)
         => result[p].err = "ValueError: Unknown model"

\* C10: get_embedding, embed_text and embed_weighted_terms with an identifier
\* that is not in the catalog raise an unknown-model error, call no loader
\* and return no vectors, whatever the cache holds.
UnknownModelNotEmbedded ==
    \A p \in Procs :
        (/\ pc[p] = "done"
         /\ req[p].op \in {"get_embedding", "embed_text"}
         /\ req[p].name \notin Catalog)
        => /\ result[p].status = "error"
           /\ result[p].err \in {"ValueError: Unknown model", "KeyError: _available_models"}
           /\ result[p].value # "vectors"
           /\ loads[p] = 0

\* C11: get_model_type(id) returns the catalog modality of id when id is in
\* the catalog and TEXT for every other id; it always returns and leaves the
\* cache as it was.
GetModelTypeDefaultsToText ==
    [][\A p \in Procs :
         (Starts(p) /\ req[p].op = "get_model_type")
         => /\ Returns(p)
            /\ result'[p].status = "ok"
            /\ result'[p].value =
                 (CASE req[p].name \in {MiniLM, "sentence-transformers/all-mpnet-base-v2",
                                        "sentence-transformers/paraphrase-multilingual-MiniLM-L12-v2"}
                         -> TEXT
                    [] req[p].name \in {"openai/clip-vit-base-patch32",
                                        "sentence-transformers/clip-ViT-B-32", MarqoB,
                                        "Marqo/marqo-ecommerce-embeddings-L"}
                         -> MULTIMODAL
                    [] OTHER -> TEXT)
            /\ _models' = _models
            /\ _model_info' = _model_info
      ]_vars

\* C11 witness: get_model_type has returned TEXT for ViT-B-32, which is not
\* in the catalog, while a model is resident.
GetModelTypeDefaultsToTextWitness ==
    /\ pc[1] = "done"
    /\ req[1].op = "get_model_type"
    /\ req[1].name = ViTB32
    /\ req[1].name \notin Catalog
    /\ result[1].value = TEXT
    /\ Len(_models) > 0

\* The build_query_embedding call of request p is given no group: each of
\* term_weights, weighted_texts and weighted_images is absent or empty.
NoGroups(a) ==
    \A g \in {"term_weights", "weighted_texts", "weighted_images"} :
        g \notin DOMAIN a \/ a[g] = <<>>

\* What a call raises when loading a model or embedding a batch fails.
EmbeddingErrors ==
    {"ValueError: Unknown model", "LoadError", "KeyError: _models",
     "KeyError: _available_models", "HTTPStatusError", "DecodeError",
     "ValueError: Image embedding not supported"}

\* What the combination of the embedded contributions raises.
CombinationErrors ==
    {"ValueError: all input arrays must have the same shape",
     "ZeroDivisionError: Weights sum to zero"}

NoInputFrame(p) ==
    /\ (result'[p].err = "ValueError: No inputs provided") <=> NoGroups(req[p].args)
    /\ NoGroups(req[p].args)
       => /\ Starts(p)
          /\ loads'[p] = 0
          /\ _models' = _models
          /\ _model_info' = _model_info
          /\ system_models' = system_models

\* C12 as stated: build_query_embedding fails with the no-input error exactly
\* when no group is given, then loads nothing and leaves the cache unchanged;
\* when a group is given and every embedding succeeds it returns a result.
BuildReturnsWhenEmbedded ==
    [][\A p \in Procs :
         (Returns(p) /\ req[p].op = "build_query_embedding")
         => /\ NoInputFrame(p)
            /\ (~NoGroups(req[p].args) /\ result'[p].err \notin EmbeddingErrors)
               => result'[p].status = "ok"
      ]_vars

\* C12 amended: build_query_embedding fails with the no-input error exactly
\* when no group is given, then loads nothing and leaves the cache unchanged;
\* when a group is given and every embedding succeeds it returns a result
\* or the combination raises: np.average under MEAN with weights that are
\* not all 1.0 and sum to zero, np.stack on contributions whose text and
\* image models have different widths.
BuildFailsWithoutInput ==
    [][\A p \in Procs :
         (Returns(p) /\ req[p].op = "build_query_embedding")
         => /\ NoInputFrame(p)
            /\ (~NoGroups(req[p].args) /\ result'[p].err \notin EmbeddingErrors)
               => \/ result'[p].status = "ok"
                  \/ /\ result'[p].err = "ZeroDivisionError: Weights sum to zero"
                     /\ "strategy" \in DOMAIN req[p].kwargs
                     /\ req[p].kwargs["strategy"] = "MEAN"
                  \/ /\ result'[p].err = "ValueError: all input arrays must have the same shape"
                     /\ "weighted_images" \in DOMAIN req[p].args
                     /\ DOMAIN req[p].args # {"weighted_images"}
      ]_vars

\* C12 witness: a call whose term_weights is an empty dict has failed with
\* the no-input error while a model is resident.
BuildFailsWithoutInputWitness ==
    /\ pc[1] = "done"
    /\ req[1].op = "build_query_embedding"
    /\ "term_weights" \in DOMAIN req[1].args
    /\ NoGroups(req[1].args)
    /\ result[1].err = "ValueError: No inputs provided"
    /\ Len(_models) > 0

\* The items of a group of the call, in input order; none when absent.
GroupOf(a, g) == IF g \in DOMAIN a THEN a[g] ELSE <<>>

\* C16: the components of a result are, in order, one TERM_AGG record of
\* weight 1.0 counting the terms when term_weights is non-empty, one TEXT
\* record per weighted text and one IMAGE record per weighted image, each in
\* input order with its weight; the weights combined are those of the records.
ComponentsInInputOrder ==
    \A p \in Procs :
        (pc[p] = "done" /\ req[p].op = "build_query_embedding" /\ result[p].status = "ok")
        => LET T == GroupOf(req[p].args, "term_weights")
               X == GroupOf(req[p].args, "weighted_texts")
               I == GroupOf(req[p].args, "weighted_images")
               nT == IF T # <<>> THEN 1 ELSE 0
               comps == out[p].components
           IN  /\ Len(comps) = nT + Len(X) + Len(I)
               /\ nT = 1 => /\ comps[1].type = "TERM_AGG"
                            /\ comps[1].weight = 1
                            /\ comps[1].count = Len(T)
               /\ \A i \in 1..Len(X) :
                    /\ comps[nT + i].type = "TEXT"
                    /\ comps[nT + i].key = X[i].key
                    /\ comps[nT + i].weight = X[i].weight
               /\ \A i \in 1..Len(I) :
                    /\ comps[nT + Len(X) + i].type = "IMAGE"
                    /\ comps[nT + Len(X) + i].key = I[i].key
                    /\ comps[nT + Len(X) + i].weight = I[i].weight
               /\ out[p].vector.weights = [i \in 1..Len(comps) |-> comps[i].weight]

\* C16 witness: a call with two terms, two texts and two images has returned
\* five components.
ComponentsInInputOrderWitness ==
    /\ pc[1] = "done"
    /\ req[1].op = "build_query_embedding"
    /\ result[1].status = "ok"
    /\ Len(GroupOf(req[1].args, "term_weights")) = 2
    /\ Len(GroupOf(req[1].args, "weighted_texts")) = 2
    /\ Len(GroupOf(req[1].args, "weighted_images")) = 2
    /\ Len(out[1].components) = 5

\* The overrides of each set of keyword arguments the calls are made with:
\* the explicit text model and the explicit image model, None when not given.
GivenTextModel(k) ==
    CASE DOMAIN k = {"text_model_name"} -> MiniLM
      [] DOMAIN k = {"text_model_name", "image_model_name"} -> MarqoB
      [] DOMAIN k = {"textModelName", "strategy"} -> MiniLM
      [] OTHER -> None

GivenImageModel(k) ==
    CASE DOMAIN k = {"image_model_name"} -> MarqoB
      [] DOMAIN k = {"text_model_name", "image_model_name"} -> MiniLM
      [] DOMAIN k = {"image_model_name", "imageModelName", "normalize"} -> MarqoB
      [] OTHER -> None

\* C17: the images of a call are embedded with the explicit image model,
\* else the explicit text model, else the default image model; the terms and
\* texts with the explicit text model, else the default text model; whatever
\* is resident.
ModelByPrecedence ==
    \A p \in Procs :
        (pc[p] = "done" /\ req[p].op = "build_query_embedding" /\ result[p].status = "ok")
        => \A i \in DOMAIN out[p].components :
             out[p].components[i].sample.model =
               (IF out[p].components[i].type = "IMAGE"
                THEN IF GivenImageModel(req[p].kwargs) # None
                     THEN GivenImageModel(req[p].kwargs)
                     ELSE IF GivenTextModel(req[p].kwargs) # None
                     THEN GivenTextModel(req[p].kwargs)
                     ELSE "ViT-B-32"
                ELSE IF GivenTextModel(req[p].kwargs) # None
                     THEN GivenTextModel(req[p].kwargs)
                     ELSE "Marqo/marqo-ecommerce-embeddings-B")

\* C17 witness: with both overrides given and different, the images went to
\* the image override, while the default image model was resident.
ModelByPrecedenceWitness ==
    /\ pc[1] = "done"
    /\ req[1].op = "build_query_embedding"
    /\ result[1].status = "ok"
    /\ DOMAIN req[1].kwargs = {"text_model_name", "image_model_name"}
    /\ \E i \in DOMAIN out[1].components : out[1].components[i].type = "IMAGE"
    /\ ViTB32 \in Keys(_models)

\* The batch of image references of request p, none when it has no image batch.
ImageBatch(p) ==
    CASE req[p].op = "get_embedding" /\ req[p].content_type = IMAGE ->
           IF req[p].content.is_str THEN <<req[p].content.val>> ELSE req[p].content.val
      [] req[p].op = "build_query_embedding" ->
           [i \in DOMAIN GroupOf(req[p].args, "weighted_images") |->
               GroupOf(req[p].args, "weighted_images")[i].key]
      [] OTHER -> <<>>

\* The references that resolve to an image.
GoodRefs == {UrlOk, DataUri, B64Ok}

FirstBad(b) == CHOOSE j \in DOMAIN b : b[j] \notin GoodRefs /\ \A k \in 1..(j - 1) : b[k] \in GoodRefs

\* C18: when an image item of a batch does not resolve, the get_embedding
\* call of the batch raises the error of that item and returns no vector, and
\* a build_query_embedding call with that batch raises and returns nothing,
\* also when its terms and texts were embedded.
ImageFailureFailsBatch ==
    \A p \in Procs :
        (pc[p] = "done" /\ \E j \in DOMAIN ImageBatch(p) : ImageBatch(p)[j] \notin GoodRefs)
        => /\ result[p].status = "error"
           /\ out[p] = NoOut
           /\ result[p].err \in {"HTTPStatusError", "DecodeError"}
              => result[p].err = (IF ImageBatch(p)[FirstBad(ImageBatch(p))] = UrlGone
                                  THEN "HTTPStatusError" ELSE "DecodeError")
           /\ result[p].err \in EmbeddingErrors

\* C18 witness: a call with terms, texts and the images <<inline, 404>> has
\* failed at the second image.
ImageFailureFailsBatchWitness ==
    /\ pc[1] = "done"
    /\ req[1].op = "build_query_embedding"
    /\ GroupOf(req[1].args, "term_weights") # <<>>
    /\ GroupOf(req[1].args, "weighted_texts") # <<>>
    /\ Len(ImageBatch(1)) > 1
    /\ ImageBatch(1)[1] \in GoodRefs
    /\ result[1].err = "HTTPStatusError"
    /\ out[1] = NoOut

\* C19: get_embedding returns one vector per item of its batch (a single
\* string is a batch of one), computed on the image path when content_type
\* is IMAGE and on the text path when it is TEXT or MULTIMODAL, whatever
\* modality the model was loaded with.
OneVectorPerItem ==
    \A p \in Procs :
        (pc[p] = "done" /\ req[p].op = "get_embedding")
        => /\ result[p].status = "ok"
              => /\ Len(out[p].vectors) =
                      (IF req[p].content.is_str THEN 1 ELSE Len(req[p].content.val))
                 /\ \A i \in DOMAIN out[p].vectors :
                      out[p].vectors[i].path =
                        (IF req[p].content_type = IMAGE THEN "image" ELSE "text")
           /\ req[p].content_type # IMAGE
              => result[p].err \notin {"HTTPStatusError", "DecodeError",
                                       "ValueError: Image embedding not supported"}

\* C19 witness: a batch of two images was embedded on the image path by a
\* model that was loaded as a TEXT model.
OneVectorPerItemWitness ==
    /\ pc[1] = "done"
    /\ req[1].op = "get_embedding"
    /\ req[1].content_type = IMAGE
    /\ result[1].status = "ok"
    /\ ~req[1].content.is_str
    /\ Len(out[1].vectors) > 1
    /\ _model_info[req[1].name].type = TEXT

\* C20: when the state-mirror write at the end of load_model fails,
\* load_model still returns the metadata: a load_model call whose loader
\* returned a handle returns its ModelInfo.
MirrorFailureSwallowed ==
    \A p \in Procs :
        (/\ pc[p] = "done"
         /\ req[p].op = "load_model"
         /\ loads[p] > 0
         /\ result[p].err # "LoadError")
        => /\ result[p].status = "ok"
           /\ result[p].value = "info"

\* The combination request p has returned a result.
Combined(p) == pc[p] = "done" /\ req[p].op = "combine" /\ result[p].status = "ok"

AllOnes(w) == \A i \in DOMAIN w : w[i] = 1

\* The combined vector the statements name, as the fraction ENum[k] / EDen
\* over the common denominator of the contribution vectors: the plain mean,
\* sum(w*v) / sum(w), or sum(w*v).
ENum(r, k) ==
    IF r.strategy = "MEAN" /\ AllOnes(r.weights)
    THEN SumSeq([i \in DOMAIN r.vectors |-> r.vectors[i].num[k]])
    ELSE SumSeq([i \in DOMAIN r.vectors |-> r.weights[i] * r.vectors[i].num[k]])

EDen(r) ==
    IF r.strategy = "MEAN" /\ AllOnes(r.weights)
    THEN r.vectors[1].den * Len(r.vectors)
    ELSE IF r.strategy = "MEAN"
    THEN r.vectors[1].den * SumSeq(r.weights)
    ELSE r.vectors[1].den

\* v is the fraction num / den, component by component.
IsFraction(v, r) ==
    /\ v.rad = 1
    /\ \A k \in DOMAIN v.num : v.num[k] * EDen(r) = ENum(r, k) * v.den

\* Two exact vectors are equal: each component has the same sign and the
\* same square.
SameVector(a, b) ==
    /\ DOMAIN a.num = DOMAIN b.num
    /\ \A k \in DOMAIN a.num :
         /\ (a.num[k] * a.den > 0) <=> (b.num[k] * b.den > 0)
         /\ (a.num[k] * a.den < 0) <=> (b.num[k] * b.den < 0)
         /\ a.num[k] * a.num[k] * b.den * b.den * b.rad
              = b.num[k] * b.num[k] * a.den * a.den * a.rad

\* The L2 norm of an exact vector is 1.
UnitNorm(v) == SumSquares(v.num) = v.den * v.den * v.rad

IsZero(v) == \A k \in DOMAIN v.num : v.num[k] = 0

\* C13: before normalisation the result is the plain mean of the
\* contribution vectors under MEAN with all weights 1.0, sum(w*v) / sum(w)
\* under MEAN with another weight, and sum(w*v) under any other strategy
\* value; the strategy value is returned as given.
CombinesByStrategy ==
    \A p \in Procs :
        Combined(p)
        => /\ out[p].strategy = req[p].strategy
           /\ ~req[p].normalize => IsFraction(out[p].vector, req[p])

\* C13 witness: two contributions with weights 2 and -1 were combined under
\* MEAN without normalisation.
CombinesByStrategyWitness ==
    /\ Combined(1)
    /\ req[1].strategy = "MEAN"
    /\ ~req[1].normalize
    /\ req[1].weights = <<2, -1>>
    /\ ~IsZero(out[1].vector)

\* C14 as stated: with one contribution and normalize=true the result is
\* that contribution's own unit vector for every weight, zero and negative
\* weights included; with weight 1.0 and WEIGHTED_SUM the result is the
\* contribution's vector.
SingleContributionAnyWeight ==
    \A p \in Procs :
        (pc[p] = "done" /\ req[p].op = "combine" /\ Len(req[p].vectors) = 1)
        => /\ req[p].normalize
              => /\ result[p].status = "ok"
                 /\ SameVector(out[p].vector, req[p].vectors[1])
           /\ (req[p].weights[1] = 1 /\ req[p].strategy = "WEIGHTED_SUM")
              => /\ result[p].status = "ok"
                 /\ SameVector(out[p].vector, req[p].vectors[1])

\* C14 amended: with one contribution and normalize=true the result is that
\* contribution's own unit vector for every positive weight, and under MEAN
\* for every negative weight too; under another strategy a negative weight
\* gives the opposite vector and a zero weight the zero vector; under MEAN a
\* zero weight raises.  With weight 1.0 and WEIGHTED_SUM the result is the
\* contribution's vector.
SingleContributionPositiveWeight ==
    \A p \in Procs :
        (pc[p] = "done" /\ req[p].op = "combine" /\ Len(req[p].vectors) = 1)
        => LET v == req[p].vectors[1]
               w == req[p].weights[1]
           IN  /\ (req[p].normalize /\ (w > 0 \/ (w < 0 /\ req[p].strategy = "MEAN")))
                  => /\ result[p].status = "ok"
                     /\ SameVector(out[p].vector, v)
               /\ (req[p].normalize /\ w < 0 /\ req[p].strategy # "MEAN")
                  => /\ result[p].status = "ok"
                     /\ SameVector(out[p].vector, [v EXCEPT !.den = -v.den])
               /\ (w = 0 /\ req[p].strategy # "MEAN")
                  => /\ result[p].status = "ok"
                     /\ IsZero(out[p].vector)
               /\ (w = 0 /\ req[p].strategy = "MEAN")
                  => result[p].err = "ZeroDivisionError: Weights sum to zero"
               /\ (w = 1 /\ req[p].strategy = "WEIGHTED_SUM")
                  => /\ result[p].status = "ok"
                     /\ SameVector(out[p].vector, v)

\* C14 witness: one unit contribution of weight 2 was combined and
\* normalised.
SingleContributionPositiveWeightWitness ==
    /\ Combined(1)
    /\ Len(req[1].vectors) = 1
    /\ req[1].weights[1] = 2
    /\ req[1].normalize
    /\ UnitNorm(req[1].vectors[1])
    /\ SameVector(out[1].vector, req[1].vectors[1])

\* C15: with normalize=true the returned vector has L2 norm 1 when the
\* combined vector is not zero and is the zero vector when it is; with
\* normalize=false it is the combined vector as computed; the dimension
\* reported is the length of the returned vector.
NormalizedUnlessZero ==
    \A p \in Procs :
        Combined(p)
        => /\ out[p].dimension = Len(out[p].vector.num)
           /\ out[p].dimension = Len(req[p].vectors[1].num)
           /\ req[p].normalize
              => IF \A k \in DOMAIN out[p].vector.num : ENum(req[p], k) = 0
                 THEN IsZero(out[p].vector)
                 ELSE UnitNorm(out[p].vector)
           /\ ~req[p].normalize => IsFraction(out[p].vector, req[p])

\* C15 witness: two unit contributions that do not cancel were summed with
\* weights 2 and 1 into a vector of norm other than 1, and normalised.
NormalizedUnlessZeroWitness ==
    /\ Combined(1)
    /\ req[1].normalize
    /\ req[1].strategy = "WEIGHTED_SUM"
    /\ req[1].weights = <<2, 1>>
    /\ req[1].vectors[1] # req[1].vectors[2]
    /\ UnitNorm(req[1].vectors[1])
    /\ UnitNorm(req[1].vectors[2])
    /\ out[1].vector.rad > 1
    /\ UnitNorm(out[1].vector)

\* The identifiers the mirror records as active models of modality t.
ActiveOf(docs, t) == {n \in DOMAIN docs : docs[n].active /\ docs[n].type = t}

\* Request p is a load_model call that ran the loader and returned its metadata.
LoadedNow(p) ==
    /\ pc[p] = "done"
    /\ req[p].op = "load_model"
    /\ result[p].status = "ok"
    /\ loads[p] > 0

\* C21: after every successful load_model of an identifier the mirror holds
\* a record for it with loaded = true, and the loaded model or another model
\* of the loaded modality is active; when neither is as the load reaches
\* ensure_active_if_none the loaded model becomes active, and when one is, no
\* active flag changes; no other step of the load changes an active flag.
LoadActivatesModality ==
    /\ [](\A p \in Procs :
            LoadedNow(p)
            => /\ system_models[req[p].name] # NoDoc
               /\ system_models[req[p].name].loaded
               /\ \/ system_models[req[p].name].active
                  \/ ActiveOf(system_models, req[p].type) # {})
    /\ [][\A p \in Procs :
            (req[p].op = "load_model" /\ pc[p] \in PersistPcs /\ pc'[p] # pc[p]
             /\ result'[p].err # "MirrorError")
            => IF /\ pc[p] = "ensure_count"
                  /\ ActiveOf(system_models, req[p].type) = {}
                  /\ ~system_models[req[p].name].active
               THEN pc'[p] = "ensure_set"
               ELSE IF pc[p] = "ensure_set"
               THEN /\ system_models'[req[p].name].active
                    /\ \A n \in DOMAIN system_models \ {req[p].name} :
                         system_models'[n] = system_models[n]
               ELSE \A n \in DOMAIN system_models :
                         system_models'[n].active = system_models[n].active
       ]_vars

\* The identifiers the mirror records as active.
ActiveModels(docs) == {n \in DOMAIN docs : docs[n].active}

\* C22: after set_active(name) has run, exactly one model in the mirror is
\* active and it is the named one, for every name, also a name that has no
\* record in the mirror (the key "name:pretrained" loadModelAdvanced
\* activates after it loaded a non-text model under the key "name").
SetActiveSetsOne ==
    \A p \in Procs :
        (pc[p] = "done" /\ req[p].op = "set_active")
        => ActiveModels(system_models) = {req[p].name}

\* startup has returned.
StartupDone(p) == req[p].op = "startup" /\ pc[p] = "done"

\* The default text model is resident.
Preloaded == settings.text_model_name \in Keys(_models)

\* C23 (as stated): whenever the preload or the mirror sync of startup has
\* failed, the service starts with the default text model not resident.
StartupFailureLeavesNotResident ==
    \A p \in Procs : (StartupDone(p) /\ result[p].err # "none") => ~Preloaded

\* C23 (amended): startup completes whether or not the preload and the
\* mirror sync succeed, a failure is logged and not propagated; after a
\* loader failure the model is not resident, after a failure of a mirror
\* write alone it is resident; a later non-forced request for the model
\* runs the loader again exactly when the model is not resident.
StartupIsBestEffort ==
    /\ [](\A p \in Procs :
            /\ (req[p].op = "startup" /\ pc[p] # "done")
                 => ENABLED (CallStartup(p) \/ Step(p))
            /\ StartupDone(p)
                 => /\ result[p].status = "ok"
                    /\ result[p].value = "None"
                    /\ result[p].err = "LoadError"
                         => ~Preloaded /\ loads[p] = 1 /\ system_models[req[p].name] = NoDoc
                    /\ result[p].err = "MirrorError"
                         => Preloaded /\ _model_info[req[p].name].is_loaded
                    /\ result[p].err = "none"
                         => Preloaded /\ system_models[req[p].name].loaded)
    /\ [][\A p \in Procs :
            (/\ Starts(p)
             /\ req[p].op \in {"load_model", "get_embedding", "embed_text"}
             /\ req[p].name = settings.text_model_name
             /\ ~req[p].force)
            => loads'[p] = IF Preloaded THEN 0 ELSE 1
       ]_vars

\* C23 witness: startup returned after a mirror write failed, with the
\* default text model resident.
StartupIsBestEffortWitness ==
    /\ StartupDone(1)
    /\ result[1].err = "MirrorError"
    /\ Preloaded
    /\ _model_info[settings.text_model_name].is_loaded

\* The loader call of request p has ended.
LoaderDone(p) == req[p].op = "loader" /\ pc[p] = "done"

\* C24: for a TEXT load the tokenizer+encoder fallback is attempted
\* exactly when the direct encoder load fails; the load succeeds if either
\* strategy succeeds, with the dimensionality the succeeding strategy
\* reports (not the catalog's) and with that strategy's variant, and it
\* fails with a load error only when both strategies fail.
TextFallback ==
    \A p \in Procs :
        (LoaderDone(p) /\ req[p].type = TEXT)
        => LET lib == req[p].lib
               data == out[p].model_data
           IN  /\ out[p].calls[1] = "SentenceTransformer"
               /\ lib.SentenceTransformer => out[p].calls = <<"SentenceTransformer">>
               /\ ~lib.SentenceTransformer
                    => out[p].calls = <<"SentenceTransformer", "AutoModel">>
               /\ result[p].status = "ok" <=> (lib.SentenceTransformer \/ lib.AutoModel)
               /\ result[p].status = "error"
                    <=> (~lib.SentenceTransformer /\ ~lib.AutoModel)
               /\ result[p].status = "error" => result[p].err = "LoadError"
               /\ result[p].status = "ok"
                    => /\ data.type = TEXT
                       /\ data.dimensions = NativeDims(req[p].name)
                       /\ data.variant = IF lib.SentenceTransformer
                                         THEN "sentence_transformer"
                                         ELSE "is_auto_model"

\* C24 witness: a TEXT load whose direct encoder load failed returned the
\* tokenizer+encoder handle, with a width that is not the catalog's.
TextFallbackWitness ==
    /\ LoaderDone(1)
    /\ req[1].type = TEXT
    /\ ~req[1].lib.SentenceTransformer
    /\ result[1].status = "ok"
    /\ out[1].model_data.variant = "is_auto_model"
    /\ out[1].calls = <<"SentenceTransformer", "AutoModel">>
    /\ req[1].name \in Catalog
    /\ out[1].model_data.dimensions # _available_models[req[1].name].dimensions

\* C25: for a MULTIMODAL catalog entry with use_auto_model a failure of
\* the dual-encoder load is raised again with no other strategy attempted,
\* and a failure of the probe alone is not fatal: the load succeeds and the
\* handle keeps the catalog's dimensionality. For a MULTIMODAL entry
\* without the flag only the direct encoder strategy is tried.
MultimodalStrategies ==
    \A p \in Procs :
        (LoaderDone(p) /\ req[p].type = MULTIMODAL /\ req[p].name \in Catalog)
        => LET lib == req[p].lib
               data == out[p].model_data
               cfg == _available_models[req[p].name]
           IN  IF cfg.use_auto_model
               THEN /\ ~lib.open_clip
                        => /\ result[p].status = "error"
                           /\ result[p].err = "LoadError"
                           /\ out[p].calls = <<"open_clip">>
                    /\ lib.open_clip
                        => /\ result[p].status = "ok"
                           /\ out[p].calls = <<"open_clip", "probe">>
                           /\ data.variant = "is_open_clip"
                           /\ data.type = MULTIMODAL
                           /\ data.dimensions = IF lib.probe
                                                THEN NativeDims(req[p].name)
                                                ELSE cfg.dimensions
               ELSE /\ out[p].calls = <<"SentenceTransformer">>
                    /\ result[p].status = "ok" <=> lib.SentenceTransformer
                    /\ result[p].status = "ok"
                        => /\ data.variant = "is_sentence_transformers"
                           /\ data.dimensions = NativeDims(req[p].name)

\* C25 witness: the dual-encoder load of a use_auto_model entry failed
\* while SentenceTransformer would have worked, and the load raised.
MultimodalStrategiesWitness ==
    /\ LoaderDone(1)
    /\ req[1].type = MULTIMODAL
    /\ cfg_get(req[1].name, "use_auto_model", FALSE)
    /\ ~req[1].lib.open_clip
    /\ req[1].lib.SentenceTransformer
    /\ req[1].lib.AutoModel
    /\ result[1].err = "LoadError"

\* The cache holds max_models handles.
AtCapacity == Len(_models) = max_models

\* C26: a load_model call whose loader fails while the cache was at
\* capacity has evicted the least-recently-used model before the failure
\* and is not rolled back: the cache is left with one resident model fewer,
\* that model's metadata has is_loaded = false, and nothing was loaded.
FailedLoadKeepsEviction ==
    [][\A p \in Procs :
         (/\ Starts(p)
          /\ req[p].op = "load_model"
          /\ AtCapacity
          /\ Returns(p)
          /\ result'[p].err = "LoadError")
         => /\ _models' = Tail(_models)
            /\ Len(_models') = max_models - 1
            /\ _model_info[_models[1].name].is_loaded
            /\ ~_model_info'[_models[1].name].is_loaded
            /\ \A n \in ModelNames \ {_models[1].name} : _model_info'[n] = _model_info[n]
            /\ system_models' = system_models
      ]_vars

\* C26 witness: a load_model call for an identifier never loaded has
\* raised the loader's error and the cache, one short of its capacity,
\* holds an evicted model's metadata.
FailedLoadKeepsEvictionWitness ==
    /\ pc[1] = "done"
    /\ req[1].op = "load_model"
    /\ result[1].err = "LoadError"
    /\ _model_info[req[1].name] = NoInfo
    /\ Len(_models) = max_models - 1
    /\ \E n \in ModelNames : Evicted(n)
    /\ ~ \E n \in ModelNames : n \notin Keys(_models) /\ _model_info[n] # NoInfo
                                 /\ _model_info[n].is_loaded

\* C27: load_model with force_reload on a resident identifier runs the
\* capacity check before reloading: at capacity the least-recently-used
\* entry is evicted, so a different resident model is gone and
\* max_models - 1 are left, unless the reloaded identifier was itself the
\* least recently used; either way the reloaded identifier ends as the
\* most recently used.
ForcedReloadEvicts ==
    [][\A p \in Procs :
         (/\ Starts(p)
          /\ req[p].op = "load_model"
          /\ req[p].force
          /\ req[p].name \in Keys(_models)
          /\ AtCapacity
          /\ pc'[p] = "persist_get")
         => /\ _models'[Len(_models')].name = req[p].name
            /\ touched'[Len(touched')] = req[p].name
            /\ _model_info'[req[p].name].is_loaded
            /\ IF _models[1].name = req[p].name
               THEN /\ Keys(_models') = Keys(_models)
                    /\ Len(_models') = max_models
               ELSE /\ Keys(_models') = Keys(_models) \ {_models[1].name}
                    /\ Len(_models') = max_models - 1
                    /\ ~_model_info'[_models[1].name].is_loaded
      ]_vars

\* C27 witness: a forced reload has returned, its identifier is the only
\* resident one and another model has been evicted.
ForcedReloadEvictsWitness ==
    /\ pc[1] = "done"
    /\ req[1].op = "load_model"
    /\ req[1].force
    /\ result[1].status = "ok"
    /\ loads[1] = 1
    /\ KeySeq(_models) = <<req[1].name>>
    /\ \E n \in ModelNames \ {req[1].name} : Evicted(n)

\* C28: a get_embedding call on a catalog identifier never fails because
\* concurrent load_model requests evicted the model between its load and
\* the lookup of its handle, which follows the mirror write of load_model.
LookupSurvivesEviction ==
    \A p \in Procs :
        (pc[p] = "done" /\ req[p].op = "get_embedding" /\ req[p].name \in Catalog)
        => result[p].err # "KeyError: _models"

\* The modalities the mirror records.
RecordTypes == {TEXT, IMAGE, MULTIMODAL}

\* C29: in every reachable state of the mirror at most one model per
\* modality is active, also when the mirror writes of concurrent load_model
\* calls interleave with each other and with the two steps of set_active.
OneActivePerModality ==
    \A t \in RecordTypes : Cardinality(ActiveOf(system_models, t)) <= 1

\* C30: after any sequence of load_model and set_active calls that each
\* run to completion before the next starts, at most one model per modality
\* is active in the mirror, and no step of a load_model call deactivates a
\* model that was active before it.
SequentialOneActive ==
    /\ []((\A p \in Procs : pc[p] \in {"idle", "done"})
            => \A t \in RecordTypes : Cardinality(ActiveOf(system_models, t)) <= 1)
    /\ [][\A p \in Procs :
            (req[p].op = "load_model" /\ pc'[p] # pc[p] /\ req'[p] = req[p])
            => \A n \in DOMAIN system_models :
                 system_models[n].active => system_models'[n].active
       ]_vars

\* C30 witness: set_active has returned for a model while another model of
\* the same modality, loaded before it, has a record: the named one is the
\* only active model.
SequentialOneActiveWitness ==
    /\ pc[1] = "done"
    /\ req[1].op = "set_active"
    /\ result[1].status = "ok"
    /\ ActiveModels(system_models) = {req[1].name}
    /\ \E n \in ModelNames \ {req[1].name} :
         /\ system_models[n] # NoDoc
         /\ system_models[n].type = system_models[req[1].name].type
         /\ system_models[n].loaded
         /\ ~system_models[n].active

\* sync_state_to_db has returned for request p.
SyncDone(p) ==
    req[p].op = "sync_state_to_db" /\ pc[p] = "done" /\ result[p].status = "ok"

\* The identifiers self._model_info has an entry for.
Known == {n \in ModelNames : _model_info[n] # NoInfo}

\* C31: unload_model and capacity eviction do not write to the mirror: the
\* step that removes a handle leaves every record as it was, and a record's
\* loaded flag goes from true to false only in a write of
\* sync_state_to_db; when sync_state_to_db has returned, the loaded flag
\* of the record of every identifier known to the cache equals the loaded
\* flag of its metadata.
MirrorFollowsSync ==
    /\ [][(\E n \in ModelNames : n \in Keys(_models) /\ n \notin Keys(_models'))
            => system_models' = system_models]_vars
    /\ [][\A n \in ModelNames :
            (system_models[n].loaded /\ ~system_models'[n].loaded)
            => \E p \in Procs : /\ InSync(p)
                                 /\ pc[p] = "persist_save"
                                 /\ LoadName(p) = n
                                 /\ Evicted(n)]_vars
    /\ [](\A p \in Procs :
            SyncDone(p)
            => \A n \in Known : /\ system_models[n] # NoDoc
                                 /\ system_models[n].loaded = _model_info[n].is_loaded)

\* C31 witness: sync_state_to_db has returned with two identifiers known
\* to the cache, one resident and one evicted or unloaded, whose record it
\* has set to loaded = false.
MirrorFollowsSyncWitness ==
    /\ SyncDone(1)
    /\ \E n \in Known : Evicted(n) /\ system_models[n] # NoDoc /\ ~system_models[n].loaded
    /\ \E n \in Known : n \in Keys(_models) /\ system_models[n].loaded

\* The handles in the cache and the ones requests are computing with.
Handles ==
    {_models[i].data : i \in DOMAIN _models}
    \cup {locals[p].model_data : p \in {q \in Procs : locals[q].model_data # LoadFailed}}

\* C32: no handle made by the loader carries the is_siglip_auto tag: every
\* handle is a direct-encoder, tokenizer+mean-pool or open dual-encoder
\* handle, so no embedding call takes the auto-model branch of the text or
\* image path and none raises its missing-image-output error.
NoAutoDualEncoderHandle ==
    /\ \A h \in Handles :
         /\ h.variant \in {"sentence_transformer", "is_sentence_transformers",
                            "is_auto_model", "is_open_clip"}
         /\ encoder_branch(h) # "is_siglip_auto"
    /\ \A p \in Procs :
         result[p].err # "ValueError: SigLIP AutoModel output missing image_embeds"

\* C32 witness: an image batch has been embedded through the open
\* dual-encoder handle of a use_auto_model catalog entry.
NoAutoDualEncoderHandleWitness ==
    /\ pc[1] = "done"
    /\ req[1].op = "get_embedding"
    /\ req[1].content_type = IMAGE
    /\ result[1].status = "ok"
    /\ cfg_get(req[1].name, "use_auto_model", FALSE)
    /\ req[1].name \in Keys(_models)
    /\ encoder_branch(GetItem(_models, req[1].name)) = "is_open_clip"

\* C33: a non-forced load_model for a resident identifier returns the
\* existing metadata unchanged, also when the requested modality is not the
\* recorded one; the modality of an identifier's metadata is the one passed
\* to the load that made the current handle, and it changes only in a
\* forced reload or in a load of the identifier while it is not resident.
ModalityFixedByLoad ==
    [][\A p \in Procs :
         /\ (/\ Starts(p)
              /\ req[p].op = "load_model"
              /\ ~req[p].force
              /\ req[p].name \in Keys(_models))
             => /\ _model_info' = _model_info
                /\ result'[p] = [status |-> "ok", err |-> "none", value |-> "info"]
         /\ \A n \in ModelNames :
              (\/ _model_info'[n].type # _model_info[n].type
               \/ (n \in Keys(_models') /\ n \notin Keys(_models))
               \/ (n \in Keys(_models) /\ n \in Keys(_models')
                      /\ GetItem(_models', n) # GetItem(_models, n)))
              => \E q \in Procs :
                   /\ Starts(q)
                   /\ loads'[q] = 1
                   /\ req[q].name = n
                   /\ n \notin Keys(_models) \/ (req[q].op = "load_model" /\ req[q].force)
                   /\ n \in Keys(_models')
                   /\ _model_info'[n].type = IF req[q].op = "load_model"
                                             THEN req[q].type
                                             ELSE _available_models[n].type
      ]_vars

\* C33 witness: a non-forced load_model has returned the metadata of a
\* resident identifier whose recorded modality is not the requested one.
ModalityFixedByLoadWitness ==
    /\ pc[1] = "done"
    /\ req[1].op = "load_model"
    /\ ~req[1].force
    /\ result[1] = [status |-> "ok", err |-> "none", value |-> "info"]
    /\ loads[1] = 0
    /\ req[1].name \in Keys(_models)
    /\ _model_info[req[1].name].type # req[1].type

====
